---- MODULE Spec2Model ----
(***************************************************************************)
(* Merge / dedup / ranking pipeline of the Gem Miner service.              *)
(*                                                                         *)
(* Strings are sequences of one-character strings, so that the regular     *)
(* expression of stripSectionNumber, trim, toLowerCase and includes are    *)
(* computed character by character.  Ratings, workload hours and           *)
(* sentiment are JavaScript numbers with at most two decimals; they are    *)
(* held in hundredths (4.5 is 450, 3.01 is 301, 0.5 is 50).                *)
(***************************************************************************)
EXTENDS Integers, Sequences, FiniteSets, TLC

VARIABLES
    sIn,        \* identifier handed to stripSectionNumber
    sArg,       \* argument of the latest stripSectionNumber call
    sOut,       \* value returned by the latest stripSectionNumber call
    sCalls,     \* number of stripSectionNumber calls made so far
    rankIn,     \* courses handed to rankCourses
    rankPrefs,  \* userPrefs handed to rankCourses
    rankOut,    \* list returned by rankCourses
    rankDone,       \* rankCourses has returned
    qreportFile,    \* rows of the evaluation CSV file, Null when the file is absent
    catalogFile,    \* rows of the catalog CSV file, Null when the file is absent
    canvasFile,     \* content of canvas-cache.json, Null when the file is absent
    qreportCache,   \* qreportLoader.cache
    catalogCache,   \* catalogAYLoader.cache
    pending,        \* a request was received and its findGems call has not returned
    query,          \* query of the latest request, the argument of its findGems call
    result,         \* list returned by the findGems call of the latest request
    gemsDone,       \* the findGems call of the latest request has returned
    lookId,         \* course identifier handed to getCourseDetails and courseExists
    lookOut,        \* value returned by getCourseDetails, Null for undefined
    lookExists,     \* value returned by courseExists
    detailsDone,    \* getCourseDetails has returned
    existsDone,     \* courseExists has returned
    firstQ,         \* collection the first qreportLoader.loadData call returned
    lastQ,          \* collection the latest qreportLoader.loadData call returned
    firstCat,       \* collection the first catalogAYLoader.loadData call returned
    lastCat,        \* collection the latest catalogAYLoader.loadData call returned
    csvLine,        \* line of a CSV file handed to parseCSVLine
    csvFields,      \* list of cells parseCSVLine returned
    csvDone,        \* parseCSVLine has returned
    fetchFilters,   \* filters handed to the latest fetchCourses call
    fetched,        \* list the latest fetchCourses call returned
    fetchDone,      \* a fetchCourses call has returned
    callPc,         \* position of each concurrent findGems call
    callQuery,      \* query of each concurrent findGems call
    callQCourses,   \* qCourses of each concurrent findGems call
    callCatalog,    \* catalogUnique of each concurrent findGems call
    callSignals,    \* canvasSignals of each concurrent findGems call
    callResult,     \* list each concurrent findGems call returned
    conversationCache, \* conversationCache: for each chat Null or Some(its entry)
    accepted,       \* for each chat, how many images, requests and responses were accepted since its entry was last deleted
    textMessage     \* text of the message of the latest request handed to extractQuery

stripVars == <<sIn, sArg, sOut, sCalls>>
rankVars == <<rankIn, rankPrefs, rankOut, rankDone>>
gemVars == <<qreportFile, catalogFile, canvasFile, qreportCache, catalogCache,
             pending, query, result, gemsDone>>

lookVars == <<lookId, lookOut, lookExists, detailsDone, existsDone>>
loadVars == <<firstQ, lastQ, firstCat, lastCat>>
csvVars == <<csvLine, csvFields, csvDone>>
fetchVars == <<fetchFilters, fetched, fetchDone>>
callVars == <<callPc, callQuery, callQCourses, callCatalog, callSignals, callResult>>
chatVars == <<conversationCache, accepted>>
msgVars == <<textMessage>>

vars == <<stripVars, rankVars, gemVars, lookVars, loadVars, csvVars, fetchVars, callVars, chatVars, msgVars>>

\* A value that may be null is <<>> (null) or <<v>> (the value v).
Null == <<>>
Some(v) == <<v>>

(***************************************************************************)
(* Bounds                                                                  *)
(***************************************************************************)
\* Longest identifier handed to the normalizer.
MaxIdLen == 6
\* Longest list of courses handed to rankCourses.
MaxCourses == 3
\* Most data rows of the evaluation file.
MaxQRows == 2
\* Most data rows of the catalog file.
MaxCatRows == 2
\* Most data rows of the catalog file when courses are looked up in it.
MaxLookupRows == 2
\* Most data rows of a source file that changes while the process runs.
MaxChangingRows == 1
\* Most data rows of the evaluation file and of the catalog file when the join
\* is examined.
MaxJoinQRows == 2
MaxJoinCatRows == 3
\* Longest line handed to parseCSVLine.
MaxLineLen == 6
\* Most data rows of the evaluation file when fetchCourses is examined.
MaxFilterRows == 2
\* Most images, and most requests or responses, stored in the busy chat
\* before it is cleared, and most items of a kind stored in the other chat.
MaxImageStores == 6
MaxTextStores == 11
MaxStoresOtherChat == 1
\* Number of findGems calls in progress at the same time.
NumCalls == 2
\* Most data rows of a source file read by concurrent calls.
MaxSharedRows == 1
\* Most data rows of the evaluation file and of the catalog file behind the webhook.
MaxWebhookQRows == 2
MaxWebhookCatRows == 1

(***************************************************************************)
(* String helpers                                                          *)
(***************************************************************************)
\* the characters identifiers are built from
IdChars == {"A", " ", "0", "1"}

\* all strings over alphabet cs of length at most n
StringsUpTo(cs, n) == UNION {[1..k -> cs] : k \in 0..n}

\* regular-expression class \s
IsSpace(c) == c \in {" ", "\t", "\n", "\r"}

\* regular-expression class \d
IsDigit(c) == c \in {"0", "1", "2", "3", "4", "5", "6", "7", "8", "9"}

RECURSIVE trimEnd(_)
trimEnd(s) ==
    IF s # <<>> /\ IsSpace(s[Len(s)])
    THEN trimEnd(SubSeq(s, 1, Len(s) - 1))
    ELSE s

RECURSIVE trimStart(_)
trimStart(s) ==
    IF s # <<>> /\ IsSpace(s[1]) THEN trimStart(Tail(s)) ELSE s

\* String.prototype.trim
trim(s) == trimStart(trimEnd(s))

UpperChars == <<"A", "B", "C", "D", "E", "F", "G", "H", "I", "J", "K", "L", "M", "N", "O", "P", "Q", "R", "S", "T", "U", "V", "W", "X", "Y", "Z">>
LowerChars == <<"a", "b", "c", "d", "e", "f", "g", "h", "i", "j", "k", "l", "m", "n", "o", "p", "q", "r", "s", "t", "u", "v", "w", "x", "y", "z">>

LowerOf == [c \in {UpperChars[i] : i \in 1..Len(UpperChars)} |->
               LowerChars[CHOOSE i \in 1..Len(UpperChars) : UpperChars[i] = c]]

LowerChar(c) == IF c \in DOMAIN LowerOf THEN LowerOf[c] ELSE c

\* String.prototype.toLowerCase
toLowerCase(s) == [i \in 1..Len(s) |-> LowerChar(s[i])]

UpperOf == [c \in {LowerChars[i] : i \in 1..Len(LowerChars)} |->
               UpperChars[CHOOSE i \in 1..Len(LowerChars) : LowerChars[i] = c]]

UpperChar(c) == IF c \in DOMAIN UpperOf THEN UpperOf[c] ELSE c

\* String.prototype.toUpperCase
toUpperCase(s) == [i \in 1..Len(s) |-> UpperChar(s[i])]

\* String.prototype.startsWith
startsWith(s, t) == Len(t) <= Len(s) /\ SubSeq(s, 1, Len(t)) = t

\* String.prototype.includes
includes(s, t) ==
    \E i \in 0..(Len(s) - Len(t)) : SubSeq(s, i + 1, i + Len(t)) = t

\* a property of an object; a property the object lacks reads as undefined,
\* which every use below treats like null
Field(obj, name) == IF name \in DOMAIN obj THEN obj[name] ELSE Null

\* x ?? d for a number that may be null
numOr(x, d) == IF x = Null THEN d ELSE x[1]

\* truthiness of a string that may be null: null and '' are falsy
Truthy(x) == x # Null /\ x[1] # <<>>

\* a || b for strings that may be null
Or(a, b) == IF Truthy(a) THEN a ELSE b

\* a ?? b
Coalesce(a, b) == IF a # Null THEN a ELSE b

\* obj?.name for an object that may be null or undefined
OptField(obj, name) == IF obj = Null THEN Null ELSE Field(obj[1], name)

\* x || d for a string that may be null: null and '' are falsy
strOr(x, d) == IF x = Null \/ x[1] = <<>> THEN d ELSE x[1]

Max(a, b) == IF a >= b THEN a ELSE b
Min(a, b) == IF a <= b THEN a ELSE b

(***************************************************************************)
(* Identifier normalizer                                                   *)
(***************************************************************************)
\* /\s+0\d{2}$/ matches: the string ends with white space, "0" and two digits
MatchesSection(s) ==
    /\ Len(s) >= 4
    /\ IsDigit(s[Len(s)])
    /\ IsDigit(s[Len(s) - 1])
    /\ s[Len(s) - 2] = "0"
    /\ IsSpace(s[Len(s) - 3])

\* courseId.replace(/\s+0\d{2}$/,'').trim(): the leftmost match starts at the
\* first character of the white-space run in front of the three digits
stripSectionNumber(courseId) ==
    trim(IF MatchesSection(courseId)
         THEN trimEnd(SubSeq(courseId, 1, Len(courseId) - 3))
         ELSE courseId)

(***************************************************************************)
(* SpecStrip: the normalizer applied to an identifier, then to its own     *)
(* result (a caller normalizing an identifier a second time).              *)
(***************************************************************************)
InitStrip ==
    /\ sIn \in StringsUpTo(IdChars, MaxIdLen)
    /\ sArg = <<>>
    /\ sOut = <<>>
    /\ sCalls = 0
    /\ rankIn = <<>>
    /\ rankPrefs = [preferredTimes |-> <<>>]
    /\ rankOut = <<>>
    /\ rankDone = FALSE
    /\ qreportFile = Null
    /\ catalogFile = Null
    /\ canvasFile = Null
    /\ qreportCache = Null
    /\ catalogCache = Null
    /\ pending = FALSE
    /\ query = <<>>
    /\ result = <<>>
    /\ gemsDone = FALSE
    /\ lookId = <<>>
    /\ lookOut = <<>>
    /\ lookExists = FALSE
    /\ detailsDone = FALSE
    /\ existsDone = FALSE
    /\ firstQ = <<>>
    /\ lastQ = <<>>
    /\ firstCat = <<>>
    /\ lastCat = <<>>
    /\ csvLine = <<>>
    /\ csvFields = <<>>
    /\ csvDone = FALSE
    /\ fetchFilters = <<>>
    /\ fetched = <<>>
    /\ fetchDone = FALSE
    /\ callPc = <<>>
    /\ callQuery = <<>>
    /\ callQCourses = <<>>
    /\ callCatalog = <<>>
    /\ callSignals = <<>>
    /\ callResult = <<>>
    /\ conversationCache = <<>>
    /\ accepted = <<>>
    /\ textMessage = <<>>

Normalize ==
    /\ sCalls = 0
    /\ sArg' = sIn
    /\ sOut' = stripSectionNumber(sIn)
    /\ sCalls' = 1
    /\ UNCHANGED <<sIn, rankVars, gemVars, lookVars, loadVars, csvVars, fetchVars, callVars, chatVars, msgVars>>

Renormalize ==
    /\ sCalls = 1
    /\ sArg' = sOut
    /\ sOut' = stripSectionNumber(sOut)
    /\ sCalls' = 2
    /\ UNCHANGED <<sIn, rankVars, gemVars, lookVars, loadVars, csvVars, fetchVars, callVars, chatVars, msgVars>>

NextStrip == Normalize \/ Renormalize

SpecStrip == InitStrip /\ [][NextStrip]_vars

(***************************************************************************)
(* Ranking engine                                                          *)
(***************************************************************************)
GEM_WORD == <<"g", "e", "m">>
EASY_CLASS == <<"e", "a", "s", "y", " ", "c", "l", "a", "s", "s">>
EASY_COURSE == <<"e", "a", "s", "y", " ", "c", "o", "u", "r", "s", "e">>

\* mutant: the bands compare with > instead of >=
ratingPointsStrict(course) ==
    LET rating == numOr(Field(course, "rating"), 0)
    IN  IF rating > 450 THEN 50
        ELSE IF rating > 400 THEN 40
        ELSE IF rating > 350 THEN 30
        ELSE IF rating > 300 THEN 20
        ELSE 10

\* rating band of computeGemScore; rating in hundredths, null counts as 0
ratingPoints(course) ==
    LET rating == numOr(Field(course, "rating"), 0)
    IN  IF rating >= 450 THEN 50
        ELSE IF rating >= 400 THEN 40
        ELSE IF rating >= 350 THEN 30
        ELSE IF rating >= 300 THEN 20
        ELSE 10

\* mutant: a null workload counts as 11 hours
workloadPointsDefault11(course) ==
    LET workloadHrs == numOr(Field(course, "workloadHrs"), 1100)
    IN  IF workloadHrs <= 300 THEN 40
        ELSE IF workloadHrs <= 500 THEN 30
        ELSE IF workloadHrs <= 800 THEN 20
        ELSE IF workloadHrs <= 1000 THEN 10
        ELSE 0

\* workload band of computeGemScore; hours in hundredths, null counts as 10 hours
workloadPoints(course) ==
    LET workloadHrs == numOr(Field(course, "workloadHrs"), 1000)
    IN  IF workloadHrs <= 300 THEN 40
        ELSE IF workloadHrs <= 500 THEN 30
        ELSE IF workloadHrs <= 800 THEN 20
        ELSE IF workloadHrs <= 1000 THEN 10
        ELSE 0

\* comment bonus of computeGemScore
commentPoints(course) ==
    LET comment == strOr(Field(course, "bestComment"), <<>>)
        lowerComment == toLowerCase(comment)
    IN  IF \/ includes(lowerComment, GEM_WORD)
           \/ includes(lowerComment, EASY_CLASS)
           \/ includes(lowerComment, EASY_COURSE)
        THEN 10
        ELSE 0

\* mutant: one bonus for each phrase the comment holds, and no clamp
computeGemScoreUnclamped(course) ==
    LET lowerComment == toLowerCase(strOr(Field(course, "bestComment"), <<>>))
        bonus(phrase) == IF includes(lowerComment, phrase) THEN 10 ELSE 0
    IN  ratingPoints(course) + workloadPoints(course)
            + bonus(GEM_WORD) + bonus(EASY_CLASS) + bonus(EASY_COURSE)

\* the score is a sum of integers, which Math.round leaves unchanged
computeGemScore(course) ==
    Max(0, Min(100, ratingPoints(course) + workloadPoints(course) + commentPoints(course)))

\* logisticsFit of one course under the lower-cased preferred times
logisticsFit(c, preferredTimes) ==
    LET meetingTime == strOr(Field(c, "meetingTime"), <<>>)
        fitsTime ==
            \/ preferredTimes = <<>>
            \/ \E k \in 1..Len(preferredTimes) :
                   includes(toLowerCase(meetingTime), preferredTimes[k])
    IN  IF fitsTime THEN 1 ELSE 0

\* mutant: an unstable sort, an element goes in front of its equals
insertByGemScoreUnstable(sorted, c) ==
    LET k == Cardinality({i \in 1..Len(sorted) : sorted[i].GemScore > c.GemScore})
    IN  SubSeq(sorted, 1, k) \o <<c>> \o SubSeq(sorted, k + 1, Len(sorted))

\* Array.prototype.sort with the comparator (a, b) => b.GemScore - a.GemScore
\* is a stable sort: an element goes behind every element that does not
\* score lower
RECURSIVE insertByGemScore(_, _)
insertByGemScore(sorted, c) ==
    IF sorted = <<>> THEN <<c>>
    ELSE IF Head(sorted).GemScore >= c.GemScore
         THEN <<Head(sorted)>> \o insertByGemScore(Tail(sorted), c)
         ELSE <<c>> \o sorted

RECURSIVE sortByGemScore(_)
sortByGemScore(scored) ==
    IF scored = <<>> THEN <<>>
    ELSE insertByGemScore(sortByGemScore(SubSeq(scored, 1, Len(scored) - 1)),
                          scored[Len(scored)])

\* the objects rankCourses builds: the course, logisticsFit and GemScore
scoreCourses(courses, preferredTimes) ==
    [i \in 1..Len(courses) |->
        LET courseWithDerived ==
                ("logisticsFit" :> logisticsFit(courses[i], preferredTimes)) @@ courses[i]
        IN  ("GemScore" :> computeGemScore(courseWithDerived)) @@ courseWithDerived]

rankCourses(courses, userPrefs) ==
    IF courses = <<>> THEN <<>>
    ELSE LET preferredTimes ==
                 [k \in 1..Len(userPrefs.preferredTimes) |->
                     toLowerCase(userPrefs.preferredTimes[k])]
         IN  sortByGemScore(scoreCourses(courses, preferredTimes))

(***************************************************************************)
(* SpecRank: rankCourses applied to one list of courses.  The list is one  *)
(* course with any rating, workload and comment of the tables below, or up *)
(* to MaxCourses courses of a smaller table.                               *)
(***************************************************************************)
Ratings == {Null} \cup {Some(r) : r \in {0, 299, 300, 349, 350, 399, 400, 449, 450, 500}}

Workloads == {Null} \cup {Some(h) : h \in {0, 300, 301, 500, 501, 800, 801, 1000, 1001, 1400}}

\* comments that mention a gem or an easy class / course
GemComments == {
    <<"T", "h", "i", "s", " ", "i", "s", " ", "s", "u", "c", "h", " ", "a", " ", "g", "e", "m", "!">>,
    <<"H", "i", "d", "d", "e", "n", " ", "G", "E", "M">>,
    <<"A", "n", " ", "E", "a", "s", "y", " ", "C", "l", "a", "s", "s", ".">>,
    <<"E", "A", "S", "Y", " ", "C", "O", "U", "R", "S", "E">>,
    <<"e", "a", "s", "y", " ", "c", "l", "a", "s", "s", ",", " ", "a", " ", "g", "e", "m">> }

\* comments that do not
PlainComments == {
    <<>>,
    <<"e", "a", "s", "y", " ", "b", "u", "t", " ", "l", "o", "n", "g", " ", "c", "l", "a", "s", "s", "e", "s">>,
    <<"H", "a", "r", "d", ",", " ", "n", "o", " ", "G", "M">> }

Comments == {Null} \cup {Some(c) : c \in GemComments \cup PlainComments}

MEETING_MON == <<"M", "o", "n", " ", "9", " ", "A", "M">>
MEETING_TUE == <<"T", "u", "e", " ", "1", " ", "P", "M">>

MeetingTimes == {Null, Some(MEETING_MON), Some(MEETING_TUE)}

Courses == [rating : Ratings, workloadHrs : Workloads,
            bestComment : Comments, meetingTime : MeetingTimes]

ListCourses == [rating : {Some(400), Some(450)}, workloadHrs : {Some(300)},
                bestComment : {Some(<<>>), Some(<<"T", "h", "i", "s", " ", "i", "s", " ", "s", "u", "c", "h", " ", "a", " ", "g", "e", "m", "!">>)},
                meetingTime : {Some(MEETING_MON), Some(MEETING_TUE)}]

PreferredTimes == {<<>>, <<<<"m", "o", "n">>>>, <<<<"T", "U", "E">>, <<"a", "m">>>>}

InitRank ==
    /\ rankIn \in {<<c>> : c \in Courses}
                  \cup UNION {[1..n -> ListCourses] : n \in 0..MaxCourses}
    /\ rankPrefs \in [preferredTimes : PreferredTimes]
    /\ rankOut = <<>>
    /\ rankDone = FALSE
    /\ sIn = <<>>
    /\ sArg = <<>>
    /\ sOut = <<>>
    /\ sCalls = 0
    /\ qreportFile = Null
    /\ catalogFile = Null
    /\ canvasFile = Null
    /\ qreportCache = Null
    /\ catalogCache = Null
    /\ pending = FALSE
    /\ query = <<>>
    /\ result = <<>>
    /\ gemsDone = FALSE
    /\ lookId = <<>>
    /\ lookOut = <<>>
    /\ lookExists = FALSE
    /\ detailsDone = FALSE
    /\ existsDone = FALSE
    /\ firstQ = <<>>
    /\ lastQ = <<>>
    /\ firstCat = <<>>
    /\ lastCat = <<>>
    /\ csvLine = <<>>
    /\ csvFields = <<>>
    /\ csvDone = FALSE
    /\ fetchFilters = <<>>
    /\ fetched = <<>>
    /\ fetchDone = FALSE
    /\ callPc = <<>>
    /\ callQuery = <<>>
    /\ callQCourses = <<>>
    /\ callCatalog = <<>>
    /\ callSignals = <<>>
    /\ callResult = <<>>
    /\ conversationCache = <<>>
    /\ accepted = <<>>
    /\ textMessage = <<>>

Rank ==
    /\ ~rankDone
    /\ rankOut' = rankCourses(rankIn, rankPrefs)
    /\ rankDone' = TRUE
    /\ UNCHANGED <<rankIn, rankPrefs, stripVars, gemVars, lookVars, loadVars, csvVars, fetchVars, callVars, chatVars, msgVars>>

NextRank == Rank

SpecRank == InitRank /\ [][NextRank]_vars

(***************************************************************************)
(* Loaders                                                                 *)
(***************************************************************************)
\* the loop of parseCSVLine from character i on: fields (result), the cells closed so
\* far, current, the cell being read, and inQuotes
RECURSIVE parseCSVLineFrom(_, _, _, _, _)
parseCSVLineFrom(line, i, fields, current, inQuotes) ==
    IF i > Len(line) THEN Append(fields, trim(current))
    ELSE IF line[i] = "\""
         THEN parseCSVLineFrom(line, i + 1, fields, current, ~inQuotes)
         ELSE IF line[i] = "," /\ ~inQuotes
              THEN parseCSVLineFrom(line, i + 1, Append(fields, trim(current)), <<>>, inQuotes)
              ELSE parseCSVLineFrom(line, i + 1, fields, Append(current, line[i]), inQuotes)

\* parseCSVLine of QReportLoader and of CatalogAYLoader, which are the same
parseCSVLine(line) == parseCSVLineFrom(line, 1, <<>>, <<>>, FALSE)

(***************************************************************************)
(* SpecCsv: parseCSVLine applied to one line.                              *)
(***************************************************************************)
\* the characters of a line: a letter, the delimiter, the quote character
\* and a space
CsvChars == {"a", ",", "\"", " "}

InitCsv ==
    /\ csvLine \in StringsUpTo(CsvChars, MaxLineLen)
    /\ csvFields = <<>>
    /\ csvDone = FALSE
    /\ sIn = <<>>
    /\ sArg = <<>>
    /\ sOut = <<>>
    /\ sCalls = 0
    /\ rankIn = <<>>
    /\ rankPrefs = [preferredTimes |-> <<>>]
    /\ rankOut = <<>>
    /\ rankDone = FALSE
    /\ qreportFile = Null
    /\ catalogFile = Null
    /\ canvasFile = Null
    /\ qreportCache = Null
    /\ catalogCache = Null
    /\ pending = FALSE
    /\ query = <<>>
    /\ result = <<>>
    /\ gemsDone = FALSE
    /\ lookId = <<>>
    /\ lookOut = <<>>
    /\ lookExists = FALSE
    /\ detailsDone = FALSE
    /\ existsDone = FALSE
    /\ firstQ = <<>>
    /\ lastQ = <<>>
    /\ firstCat = <<>>
    /\ lastCat = <<>>
    /\ fetchFilters = <<>>
    /\ fetched = <<>>
    /\ fetchDone = FALSE
    /\ callPc = <<>>
    /\ callQuery = <<>>
    /\ callQCourses = <<>>
    /\ callCatalog = <<>>
    /\ callSignals = <<>>
    /\ callResult = <<>>
    /\ conversationCache = <<>>
    /\ accepted = <<>>
    /\ textMessage = <<>>

ParseCSVLine ==
    /\ ~csvDone
    /\ csvFields' = parseCSVLine(csvLine)
    /\ csvDone' = TRUE
    /\ UNCHANGED <<csvLine, stripVars, rankVars, gemVars, lookVars, loadVars, fetchVars, callVars, chatVars, msgVars>>

NextCsv == ParseCSVLine

SpecCsv == InitCsv /\ [][NextCsv]_vars

\* the course object QReportLoader.loadData builds from one data row; the
\* numeric cells are held as parseNum returns them
qreportCourse(row) ==
    [courseId |-> Some(trim(row.course_code)),
     title |-> Some(trim(row.course_title)),
     rating |-> row.course_score_mean,
     workloadHrs |-> row.workload_score_mean,
     sentiment |-> row.sentiment_score_mean,
     gemProbability |-> row.gem_probability_mean,
     bestComment |-> row.best_gem_comment,
     qreportLink |-> row.link,
     description |-> row.description,
     genEd |-> row.general_education,
     weekdays |-> row.weekdays,
     startTime |-> row.start_time,
     endTime |-> row.end_time]

\* the rows QReportLoader.loadData keeps: those with a course code
qreportCourses(rows) ==
    LET kept == SelectSeq(rows, LAMBDA row : row.course_code # <<>>)
    IN  [i \in 1..Len(kept) |-> qreportCourse(kept[i])]

NO_MEETING == <<"N", "o", " ", "m", "e", "e", "t", "i", "n", "g", " ", "t", "i", "m", "e", " ", "l", "i", "s", "t", "e", "d">>

\* the words a cell that holds description text only is recognized by,
\* letter case removed
commonDescriptionWords == {
    <<"h", "o", "w">>,
    <<"w", "h", "a", "t">>,
    <<"t", "h", "i", "s">>,
    <<"i", "n">>,
    <<"t", "h", "e">>,
    <<"a">>,
    <<"a", "n">>,
    <<"i", "s">>,
    <<"a", "r", "e">>,
    <<"w", "a", "s">>,
    <<"w", "e", "r", "e">>,
    <<"d", "o">>,
    <<"d", "o", "e", "s">>,
    <<"d", "i", "d">>,
    <<"c", "a", "n">>,
    <<"c", "o", "u", "l", "d">>,
    <<"w", "i", "l", "l">>,
    <<"w", "o", "u", "l", "d">>,
    <<"s", "h", "o", "u", "l", "d">>,
    <<"m", "a", "y">>,
    <<"m", "i", "g", "h", "t">>,
    <<"m", "u", "s", "t">>,
    <<"s", "h", "a", "l", "l">>,
    <<"b", "i", "g">>,
    <<"w", "e">> }

\* the words removed from the end of the instructors cell, letter case removed
trailingDescriptionWords == {
    <<"h", "o", "w">>,
    <<"w", "h", "a", "t">>,
    <<"t", "h", "i", "s">>,
    <<"i", "n">>,
    <<"t", "h", "e">>,
    <<"a">>,
    <<"a", "n">>,
    <<"i", "s">>,
    <<"a", "r", "e">>,
    <<"w", "a", "s">>,
    <<"w", "e", "r", "e">>,
    <<"d", "o">>,
    <<"d", "o", "e", "s">>,
    <<"d", "i", "d">>,
    <<"f", "i", "e", "l", "d">>,
    <<"c", "o", "u", "r", "s", "e">>,
    <<"s", "t", "u", "d", "e", "n", "t", "s">>,
    <<"t", "o", "p", "i", "c", "s">>,
    <<"i", "n", "s", "t", "r", "u", "c", "t", "o", "r">>,
    <<"p", "r", "o", "f", "e", "s", "s", "o", "r">>,
    <<"w", "e">>,
    <<"i", "t">>,
    <<"f", "o", "r">>,
    <<"t", "o">>,
    <<"f", "r", "o", "m">>,
    <<"w", "i", "t", "h">>,
    <<"b", "y">>,
    <<"a", "t">>,
    <<"o", "n">>,
    <<"o", "f">>,
    <<"a", "n", "d">>,
    <<"o", "r">>,
    <<"b", "u", "t">>,
    <<"a", "s">>,
    <<"c", "a", "n">>,
    <<"c", "o", "u", "l", "d">>,
    <<"w", "i", "l", "l">>,
    <<"w", "o", "u", "l", "d">>,
    <<"b", "i", "g">>,
    <<"s", "m", "a", "l", "l">>,
    <<"l", "a", "r", "g", "e">>,
    <<"m", "a", "n", "y">>,
    <<"s", "o", "m", "e">>,
    <<"a", "l", "l">>,
    <<"e", "a", "c", "h">>,
    <<"e", "v", "e", "r", "y">>,
    <<"m", "o", "s", "t">> }

INSTRUCTOR_NOT_LISTED == <<"I", "n", "s", "t", "r", "u", "c", "t", "o", "r", " ", "n", "o", "t", " ", "l", "i", "s", "t", "e", "d">>

\* s ends with white space followed by word, in any letter case
endsWithWord(s, word) ==
    /\ Len(s) > Len(word)
    /\ toLowerCase(SubSeq(s, Len(s) - Len(word) + 1, Len(s))) = word
    /\ IsSpace(s[Len(s) - Len(word)])

\* cleanedInstructors of CatalogAYLoader.loadData
cleanInstructors(instructors) ==
    LET trimmed == trim(instructors)
        words == {word \in trailingDescriptionWords : endsWithWord(trimmed, word)}
    IN  IF toLowerCase(trimmed) \in commonDescriptionWords THEN INSTRUCTOR_NOT_LISTED
        ELSE IF words = {} THEN trimmed
        ELSE trimEnd(SubSeq(trimmed, 1, Len(trimmed) - Len(CHOOSE word \in words : TRUE)))

\* the course object CatalogAYLoader.loadData builds from one data row
catalogCourse(row) ==
    [courseId |-> Some(trim(row.subject \o <<" ">> \o row.course_number)),
     subject |-> Some(trim(row.subject)),
     courseNumber |-> Some(trim(row.course_number)),
     title |-> Some(trim(row.title)),
     department |-> Some(trim(row.department)),
     term |-> Some(trim(row.term)),
     meeting |-> Some(IF row.weekdays # <<>> /\ row.start_time # <<>> /\ row.end_time # <<>>
                      THEN row.weekdays \o <<" ">> \o row.start_time \o <<" ", "-", " ">>
                               \o row.end_time
                      ELSE NO_MEETING),
     weekdays |-> Some(trim(row.weekdays)),
     startTime |-> Some(trim(row.start_time)),
     endTime |-> Some(trim(row.end_time)),
     instructors |-> Some(cleanInstructors(row.instructors)),
     distribution |-> Some(trim(row.distribution)),
     requirements |-> Some(trim(row.requirements)),
     description |-> Some(trim(row.description))]

HARVARD_UNIVERSITY == <<"H", "A", "R", "V", "A", "R", "D", " ", "U", "N", "I", "V", "E", "R", "S", "I", "T", "Y">>
TABLE_OF_CONTENTS == <<"T", "A", "B", "L", "E", " ", "O", "F", " ", "C", "O", "N", "T", "E", "N", "T", "S">>

\* the rows CatalogAYLoader.loadData keeps: no front matter, a course_id cell
catalogCourses(rows) ==
    LET kept == SelectSeq(rows, LAMBDA row :
                    /\ ~includes(row.title, HARVARD_UNIVERSITY)
                    /\ ~includes(row.title, TABLE_OF_CONTENTS)
                    /\ trim(row.course_id) # <<>>)
    IN  [i \in 1..Len(kept) |-> catalogCourse(kept[i])]

\* mutant: the evaluation loader publishes its cache before the rows are
\* parsed into it
qreportLoadDataEarlyCache(cache, file) ==
    IF cache # Null THEN [courses |-> cache[1], cache |-> cache]
    ELSE IF file = Null THEN [courses |-> <<>>, cache |-> Null]
    ELSE [courses |-> qreportCourses(file[1]), cache |-> Some(<<>>)]

\* loadData of a loader: the cache when it is set, nothing when the file is
\* absent, else the parsed courses, which become the cache.  Returns the
\* courses and the cache after the call.
qreportLoadData(cache, file) ==
    IF cache # Null THEN [courses |-> cache[1], cache |-> cache]
    ELSE IF file = Null THEN [courses |-> <<>>, cache |-> Null]
    ELSE LET courses == qreportCourses(file[1])
         IN  [courses |-> courses, cache |-> Some(courses)]

catalogLoadData(cache, file) ==
    IF cache # Null THEN [courses |-> cache[1], cache |-> cache]
    ELSE IF file = Null THEN [courses |-> <<>>, cache |-> Null]
    ELSE LET courses == catalogCourses(file[1])
         IN  [courses |-> courses, cache |-> Some(courses)]

\* mutant: a record without workload passes the workload threshold
applyFiltersUnknownPasses(courses, filters) ==
    LET byRating ==
            IF filters.minRating # Null
            THEN SelectSeq(courses, LAMBDA c :
                    c.rating # Null /\ c.rating[1] >= filters.minRating[1])
            ELSE courses
        byWorkload ==
            IF filters.maxHrsPerWeek # Null
            THEN SelectSeq(byRating, LAMBDA c :
                    c.workloadHrs = Null \/ c.workloadHrs[1] <= filters.maxHrsPerWeek[1])
            ELSE byRating
    IN  IF filters.minGemProb # Null
        THEN SelectSeq(byWorkload, LAMBDA c :
                c.gemProbability # Null /\ c.gemProbability[1] >= filters.minGemProb[1])
        ELSE byWorkload

\* QReportLoader.applyFilters
applyFilters(courses, filters) ==
    LET byDepartment ==
            IF Truthy(filters.department)
            THEN LET dept == toUpperCase(filters.department[1])
                 IN  SelectSeq(courses, LAMBDA c :
                        \/ startsWith(toUpperCase(c.courseId[1]), dept)
                        \/ includes(toUpperCase(c.courseId[1]), dept)
                        \/ includes(toUpperCase(c.title[1]), dept))
            ELSE courses
        byTitle ==
            IF Truthy(filters.titleSearch)
            THEN LET search == toLowerCase(filters.titleSearch[1])
                 IN  SelectSeq(byDepartment, LAMBDA c :
                        \/ includes(toLowerCase(c.title[1]), search)
                        \/ /\ Truthy(c.description)
                           /\ includes(toLowerCase(c.description[1]), search))
            ELSE byDepartment
        byRating ==
            IF filters.minRating # Null
            THEN SelectSeq(byTitle, LAMBDA c :
                    c.rating # Null /\ c.rating[1] >= filters.minRating[1])
            ELSE byTitle
        byWorkload ==
            IF filters.maxHrsPerWeek # Null
            THEN SelectSeq(byRating, LAMBDA c :
                    c.workloadHrs # Null /\ c.workloadHrs[1] <= filters.maxHrsPerWeek[1])
            ELSE byRating
    IN  IF filters.minGemProb # Null
        THEN SelectSeq(byWorkload, LAMBDA c :
                c.gemProbability # Null /\ c.gemProbability[1] >= filters.minGemProb[1])
        ELSE byWorkload

\* CanvasSignals.loadSignals: the signals the cache file holds for the ids
loadSignals(file, courseIds) ==
    IF file = Null THEN <<>>
    ELSE [id \in {courseIds[i] : i \in 1..Len(courseIds)} \cap DOMAIN file[1] |-> file[1][id]]

\* the part of GENED_CATEGORIES the identifiers of this model can reach
GENED_CATEGORIES ==
    (<<"G", "E", "N", "E", "D", " ", "1", "0", "3", "4">> :> "Aesthetics and Culture")
    @@ (<<"G", "E", "N", "E", "D", " ", "1", "0", "5", "9">> :> "Ethics and Civics")

\* /\s+\d{3}\s*$/ removed from the identifier
stripAnySection(s) ==
    LET t == trimEnd(s)
    IN  IF /\ Len(t) >= 4
           /\ IsDigit(t[Len(t)]) /\ IsDigit(t[Len(t) - 1]) /\ IsDigit(t[Len(t) - 2])
           /\ IsSpace(t[Len(t) - 3])
        THEN trimEnd(SubSeq(t, 1, Len(t) - 3))
        ELSE s

getGenEdCategory(courseId) ==
    IF ~Truthy(courseId) THEN Null
    ELSE LET normalizedId == trim(toUpperCase(courseId[1]))
             courseBase == trim(stripAnySection(normalizedId))
         IN  IF normalizedId \in DOMAIN GENED_CATEGORIES
             THEN Some(GENED_CATEGORIES[normalizedId])
             ELSE IF courseBase \in DOMAIN GENED_CATEGORIES
                  THEN Some(GENED_CATEGORIES[courseBase])
                  ELSE Null

(***************************************************************************)
(* Merge and dedup engine                                                  *)
(***************************************************************************)
GENED == <<"G", "E", "N", "E", "D">>
UNKNOWN_TITLE == <<"U", "n", "k", "n", "o", "w", "n", " ", "T", "i", "t", "l", "e">>
UNKNOWN == <<"U", "N", "K", "N", "O", "W", "N">>
YEAR_2026 == <<"2", "0", "2", "6">>

\* the arguments are Null or Some(object)
mergeCourseData(qCourse, catalogEntry, canvasSignal) ==
    LET rating == Coalesce(OptField(qCourse, "rating"), Null)
        workloadHrs == Coalesce(OptField(qCourse, "workloadHrs"), Null)
        sentiment == Coalesce(OptField(qCourse, "sentiment"), Null)
        assessmentLightness == Coalesce(OptField(canvasSignal, "assessmentLightness"), Null)
        genEd == Or(OptField(qCourse, "genEd"), Or(OptField(catalogEntry, "distribution"), Null))
        finalExam == Coalesce(OptField(canvasSignal, "finalExam"),
                              Coalesce(OptField(catalogEntry, "finalExam"), Null))
        title == Or(OptField(qCourse, "title"),
                    Or(OptField(catalogEntry, "title"), Some(UNKNOWN_TITLE)))
        courseId == Or(OptField(qCourse, "courseId"),
                       Or(OptField(catalogEntry, "courseId"), Some(UNKNOWN)))
        weekdays == Or(OptField(catalogEntry, "weekdays"), Or(OptField(qCourse, "weekdays"), Null))
        startTime == Or(OptField(catalogEntry, "startTime"), Or(OptField(qCourse, "startTime"), Null))
        endTime == Or(OptField(catalogEntry, "endTime"), Or(OptField(qCourse, "endTime"), Null))
        meetingTime ==
            IF Truthy(weekdays) /\ Truthy(startTime) /\ Truthy(endTime)
            THEN Some(weekdays[1] \o <<" ">> \o startTime[1] \o <<"-">> \o endTime[1])
            ELSE Or(OptField(catalogEntry, "meeting"), Null)
        subject == OptField(catalogEntry, "subject")
        isGenEd == (subject # Null /\ toUpperCase(subject[1]) = GENED) \/ genEd # Null
        genEdCategory == IF isGenEd THEN getGenEdCategory(courseId) ELSE Null
    IN  [courseId |-> courseId,
         title |-> title,
         department |-> Or(OptField(qCourse, "department"),
                           Or(OptField(catalogEntry, "department"),
                              Or(OptField(catalogEntry, "subject"), Null))),
         subject |-> Or(subject, Null),
         rating |-> rating,
         workloadHrs |-> workloadHrs,
         sentiment |-> sentiment,
         assessmentLightness |-> assessmentLightness,
         meetingTime |-> meetingTime,
         genEd |-> genEd,
         genEdCategory |-> genEdCategory,
         finalExam |-> finalExam,
         qreportLink |-> Or(OptField(qCourse, "qreportLink"), Null),
         description |-> Or(OptField(qCourse, "description"),
                            Or(OptField(catalogEntry, "description"), Null)),
         weekdays |-> weekdays,
         startTime |-> startTime,
         endTime |-> endTime,
         requirements |-> Or(OptField(catalogEntry, "requirements"), Null),
         instructors |-> Or(OptField(catalogEntry, "instructors"),
                            Or(OptField(qCourse, "instructor"), Null)),
         term |-> Or(OptField(catalogEntry, "term"), Null)]

\* mutant: an entry of 2026 replaces the kept entry whatever the term of the
\* kept entry
dedupCatalogStepLatestRecent(deduped, entry) ==
    LET same == {i \in 1..Len(deduped) : deduped[i].courseId = entry.courseId}
    IN  IF same = {} THEN Append(deduped, entry)
        ELSE LET i == CHOOSE k \in same : TRUE
                 thisTerm == strOr(entry.term, <<>>)
                 existingTerm == strOr(deduped[i].term, <<>>)
             IN  IF includes(thisTerm, YEAR_2026)
                 THEN [deduped EXCEPT ![i] = entry]
                 ELSE IF thisTerm # <<>> /\ existingTerm = <<>>
                      THEN [deduped EXCEPT ![i] = entry]
                      ELSE deduped

\* one step of the catalog dedup: catalogDeduped after entry is visited.  A
\* Map keeps a key at the position of its first insertion.
dedupCatalogStep(deduped, entry) ==
    LET same == {i \in 1..Len(deduped) : deduped[i].courseId = entry.courseId}
    IN  IF same = {} THEN Append(deduped, entry)
        ELSE LET i == CHOOSE k \in same : TRUE
                 thisTerm == strOr(entry.term, <<>>)
                 existingTerm == strOr(deduped[i].term, <<>>)
             IN  IF includes(thisTerm, YEAR_2026) /\ ~includes(existingTerm, YEAR_2026)
                 THEN [deduped EXCEPT ![i] = entry]
                 ELSE IF thisTerm # <<>> /\ existingTerm = <<>>
                      THEN [deduped EXCEPT ![i] = entry]
                      ELSE deduped

\* catalogUnique: the values of catalogDeduped after all entries
RECURSIVE dedupCatalog(_)
dedupCatalog(catalogEntries) ==
    IF catalogEntries = <<>> THEN <<>>
    ELSE dedupCatalogStep(dedupCatalog(SubSeq(catalogEntries, 1, Len(catalogEntries) - 1)),
                          catalogEntries[Len(catalogEntries)])

\* catalogById.get(key): the entry set last under key, by its literal or by
\* its stripped identifier; Null when the key was never set
catalogByIdGet(catalogUnique, key) ==
    LET hits == {i \in 1..Len(catalogUnique) :
                    \/ catalogUnique[i].courseId[1] = key
                    \/ stripSectionNumber(catalogUnique[i].courseId[1]) = key}
    IN  IF hits = {} THEN Null
        ELSE Some(catalogUnique[CHOOSE i \in hits : \A j \in hits : j <= i])

\* mutant: the fallback branch leaves the rating as the merge produced it
mergeFallbackKeepsRating(catalogUnique) ==
    [i \in 1..Len(catalogUnique) |->
        [mergeCourseData(Null, Some(catalogUnique[i]), Null) @@ ("usingDefaults" :> TRUE)
            EXCEPT !.workloadHrs = Some(600), !.sentiment = Some(50)]]

\* the fallback branch: catalog entries with default values
mergeFallback(catalogUnique) ==
    [i \in 1..Len(catalogUnique) |->
        [mergeCourseData(Null, Some(catalogUnique[i]), Null) @@ ("usingDefaults" :> TRUE)
            EXCEPT !.rating = Some(400), !.workloadHrs = Some(600), !.sentiment = Some(50)]]

\* mutant: the normal branch keeps the evaluation records that have a catalog
\* entry only
mergeNormalMatchedOnly(qCourses, catalogUnique, canvasSignals) ==
    LET matched == SelectSeq(qCourses, LAMBDA q :
                       \/ catalogByIdGet(catalogUnique, q.courseId[1]) # Null
                       \/ catalogByIdGet(catalogUnique, stripSectionNumber(q.courseId[1])) # Null)
    IN  [i \in 1..Len(matched) |->
            LET q == matched[i]
                strippedId == stripSectionNumber(q.courseId[1])
                literal == catalogByIdGet(catalogUnique, q.courseId[1])
                catalogEntry == IF literal # Null THEN literal
                                ELSE catalogByIdGet(catalogUnique, strippedId)
            IN  [mergeCourseData(Some(q), catalogEntry, Null) @@ ("hasQReportData" :> TRUE)
                    EXCEPT !.courseId = Some(strippedId)]]

\* the normal branch: every evaluation record, enriched from the catalog
mergeNormal(qCourses, catalogUnique, canvasSignals) ==
    [i \in 1..Len(qCourses) |->
        LET q == qCourses[i]
            strippedId == stripSectionNumber(q.courseId[1])
            literal == catalogByIdGet(catalogUnique, q.courseId[1])
            catalogEntry == IF literal # Null THEN literal
                            ELSE catalogByIdGet(catalogUnique, strippedId)
            canvasSignal == IF q.courseId[1] \in DOMAIN canvasSignals
                            THEN Some(canvasSignals[q.courseId[1]])
                            ELSE Null
        IN  [mergeCourseData(Some(q), catalogEntry, canvasSignal) @@ ("hasQReportData" :> TRUE)
                EXCEPT !.courseId = Some(strippedId)]]

\* mutant: the final deduplication pass is left out
dedupMergedNone(merged) == merged

\* mutant: the final deduplication pass keeps the last entry of each courseId
dedupMergedLast(merged) ==
    LET last == {i \in 1..Len(merged) :
                    \A j \in (i + 1)..Len(merged) : merged[j].courseId # merged[i].courseId}
    IN  [k \in 1..Cardinality(last) |->
            merged[CHOOSE i \in last : Cardinality({j \in last : j <= i}) = k]]

\* the final deduplication pass: the first entry of each courseId, in order
dedupMerged(merged) ==
    LET first == {i \in 1..Len(merged) :
                     \A j \in 1..(i - 1) : merged[j].courseId # merged[i].courseId}
    IN  [k \in 1..Cardinality(first) |->
            merged[CHOOSE i \in first : Cardinality({j \in first : j <= i}) = k]]

\* mutant: noFinal keeps the courses known to have no final exam only
applyConstraintsKnownNoFinal(merged, q) ==
    SelectSeq(merged, LAMBDA c : c.finalExam \in {Some("false"), Some("no")})

\* mutant: a request for general education courses is answered by the text
\* of the department, as any other department
applyConstraintsDepartmentText(merged, q) ==
    SelectSeq(merged, LAMBDA c :
        includes(toLowerCase(strOr(c.department, <<>>)), toLowerCase(strOr(q.department, <<>>))))

\* mutant: the department constraint is skipped when a workload limit is set
applyConstraintsHoursFirst(merged, q) ==
    IF q.maxHrsPerWeek # Null
    THEN SelectSeq(merged, LAMBDA c :
            c.workloadHrs = Null \/ c.workloadHrs[1] <= q.maxHrsPerWeek[1])
    ELSE SelectSeq(merged, LAMBDA c :
            includes(toLowerCase(strOr(c.department, <<>>)), toLowerCase(strOr(q.department, <<>>))))

\* the optional constraints of the query, applied to the merged courses
applyConstraints(merged, q) ==
    LET byHours ==
            IF q.maxHrsPerWeek # Null
            THEN SelectSeq(merged, LAMBDA c :
                    c.workloadHrs = Null \/ c.workloadHrs[1] <= q.maxHrsPerWeek[1])
            ELSE merged
        byFinal ==
            IF q.noFinal
            THEN SelectSeq(byHours, LAMBDA c :
                    c.finalExam \in {Some("false"), Some("no"), Null})
            ELSE byHours
        byDepartment ==
            IF Truthy(q.department)
            THEN LET d == toLowerCase(q.department[1])
                 IN  IF d = toLowerCase(GENED)
                     THEN SelectSeq(byFinal, LAMBDA c :
                             toUpperCase(strOr(c.subject, <<>>)) = GENED)
                     ELSE SelectSeq(byFinal, LAMBDA c :
                             includes(toLowerCase(strOr(c.department, <<>>)), d))
            ELSE byFinal
        byCode ==
            IF Truthy(q.courseCode)
            THEN LET codeUpper == trim(toUpperCase(q.courseCode[1]))
                 IN  SelectSeq(byDepartment, LAMBDA c :
                        LET courseId == trim(toUpperCase(strOr(c.courseId, <<>>)))
                        IN  courseId = codeUpper \/ startsWith(courseId, codeUpper \o <<" ">>))
            ELSE byDepartment
    IN  IF q.genEdCategory # Null
        THEN SelectSeq(byCode, LAMBDA c :
                /\ toUpperCase(strOr(c.subject, <<>>)) = GENED
                /\ c.genEdCategory = q.genEdCategory)
        ELSE byCode

\* merged in findGems when the optional constraints are reached: the merge
\* of either branch after the final deduplication pass.  qCourses is what
\* fetchCourses returned, catalogEntries what catalogAYLoader.loadData returned
mergedCourses(qCourses, catalogEntries, canvas) ==
    LET catalogUnique == dedupCatalog(catalogEntries)
        courseIds == [i \in 1..Len(qCourses) |-> qCourses[i].courseId[1]]
        canvasSignals == loadSignals(canvas, SelectSeq(courseIds, LAMBDA id : id # <<>>))
        merged ==
            IF qCourses = <<>> /\ catalogUnique # <<>>
            THEN mergeFallback(catalogUnique)
            ELSE mergeNormal(qCourses, catalogUnique, canvasSignals)
    IN  dedupMerged(merged)

\* findGems after the two loads
findGems(q, qCourses, catalogEntries, canvas) ==
    LET filtered == applyConstraints(mergedCourses(qCourses, catalogEntries, canvas), q)
    IN  rankCourses(filtered, [preferredTimes |-> q.preferredTimes])

(***************************************************************************)
(* Spec: requests received one after the other, each with a query of the   *)
(* table, handed to findGems and answered, in a process whose three source *)
(* files hold distinct rows of the tables below.                           *)
(***************************************************************************)
QRow(code, title, rating, workload, comment) ==
    [course_code |-> code, course_title |-> title,
     course_score_mean |-> rating, workload_score_mean |-> workload,
     sentiment_score_mean |-> Some(80), gem_probability_mean |-> Null,
     best_gem_comment |-> comment, link |-> Null, description |-> Null,
     general_education |-> Null, weekdays |-> Null, start_time |-> Null,
     end_time |-> Null]

\* two sections of one course, the first with a general education tag and a
\* meeting time of its own, and a course whose number has three digits and
\* whose link cell is empty
QRows == {
    [QRow(<<"A", " ", "1", " ", "0", "0", "1">>, <<"A", "r", "t">>, Some(450), Some(400), Some(<<"a", " ", "g", "e", "m">>))
        EXCEPT !.general_education = Some(<<"A", "r", "t", "s">>), !.weekdays = Some(<<"F", "r", "i">>),
               !.start_time = Some(<<"3", ":", "0", "0", " ", "P", "M">>), !.end_time = Some(<<"4", ":", "0", "0", " ", "P", "M">>),
               !.link = Some(<<"q", "/", "1">>)],
    [QRow(<<"A", " ", "1", " ", "0", "0", "2">>, <<"A", "r", "t">>, Some(350), Null, Some(<<>>)) EXCEPT !.link = Some(<<"q", "/", "2">>)],
    [QRow(<<"B", " ", "1", "0", "9">>, <<"B", "i", "o">>, Some(300), Some(1200), Null) EXCEPT !.link = Some(<<>>)] }

CatalogRow(id, subject, number, department, term, weekdays, start, end) ==
    [course_id |-> id, subject |-> subject, course_number |-> number,
     title |-> <<"A", "r", "t">>, department |-> department, term |-> term,
     weekdays |-> weekdays, start_time |-> start, end_time |-> end,
     instructors |-> <<>>, distribution |-> <<>>, requirements |-> <<>>,
     description |-> <<>>]

\* a course in two terms, one of its sections (the later term and the section
\* with a distribution, the section with instructors and requirements), two rows whose subject and
\* course number cells leave the composed identifier empty or "UNKNOWN" (the
\* latter of a department named after the general education programme), and
\* a general education course
CatalogRows == {
    CatalogRow(<<"1">>, <<"A">>, <<"1">>, <<"A", "r", "t", "s">>, <<"2", "0", "2", "5", " ", "F", "a", "l", "l">>, <<>>, <<>>, <<>>),
    [CatalogRow(<<"2">>, <<"A">>, <<"1">>, <<"A", "r", "t", "s">>, <<"2", "0", "2", "6", " ", "S", "p", "r", "i", "n", "g">>, <<"T", "u", "e">>, <<"1", ":", "0", "0", " ", "P", "M">>, <<"2", ":", "0", "0", " ", "P", "M">>)
        EXCEPT !.distribution = <<"H", "u", "m">>],
    [CatalogRow(<<"3">>, <<"A">>, <<"1", " ", "0", "0", "1">>, <<"A", "r", "t", "s">>, <<>>, <<"M", "o", "n">>, <<"9", ":", "0", "0", " ", "A", "M">>, <<"1", "0", ":", "0", "0", " ", "A", "M">>)
        EXCEPT !.instructors = <<"A", "n", "n", " ", "L", "e", "e", " ", "T", "h", "e">>, !.distribution = <<"H", "u", "m">>,
               !.requirements = <<"N", "o", "n", "e">>],
    CatalogRow(<<"4">>, <<>>, <<>>, <<"A", "r", "t", "s">>, <<>>, <<>>, <<>>, <<>>),
    CatalogRow(<<"5">>, <<"U", "N", "K", "N", "O", "W", "N">>, <<>>, <<"G", "e", "n", "E", "d">>, <<>>, <<>>, <<>>, <<>>),
    CatalogRow(<<"6">>, <<"G", "e", "n", "E", "d">>, <<"1", "0", "5", "9">>, <<"C", "o", "r", "e">>, <<>>, <<>>, <<>>, <<>>) }

\* canvas-cache.json is absent, or holds a signal for each evaluation record
\* of QRows: a final exam, finalExam "no", finalExam false
CanvasFiles == {
    Null,
    Some((<<"A", " ", "1", " ", "0", "0", "1">> :> [assessmentLightness |-> Some(70), finalExam |-> Some("true")])
         @@ (<<"A", " ", "1", " ", "0", "0", "2">> :> [assessmentLightness |-> Null, finalExam |-> Some("no")])
         @@ (<<"B", " ", "1", "0", "9">> :> [assessmentLightness |-> Some(30), finalExam |-> Some("false")])) }

EmptyQuery ==
    [filters |-> [department |-> Null, titleSearch |-> Null, minRating |-> Null,
                  maxHrsPerWeek |-> Null, minGemProb |-> Null],
     maxHrsPerWeek |-> Null, noFinal |-> FALSE, department |-> Null,
     courseCode |-> Null, genEdCategory |-> Null, preferredTimes |-> <<>>]

Queries == {
    EmptyQuery,
    [EmptyQuery EXCEPT !.filters.minRating = Some(450)],
    [EmptyQuery EXCEPT !.filters.maxHrsPerWeek = Some(500)],
    [EmptyQuery EXCEPT !.filters.department = Some(<<"b">>)],
    [EmptyQuery EXCEPT !.filters.titleSearch = Some(<<"A", "R", "T">>)],
    [EmptyQuery EXCEPT !.maxHrsPerWeek = Some(500)],
    [EmptyQuery EXCEPT !.noFinal = TRUE],
    [EmptyQuery EXCEPT !.department = Some(<<"a">>)],
    [EmptyQuery EXCEPT !.department = Some(<<"G", "E", "N", "E", "D">>)],
    [EmptyQuery EXCEPT !.maxHrsPerWeek = Some(500), !.department = Some(<<"A", "R">>)],
    [EmptyQuery EXCEPT !.courseCode = Some(<<"a", " ", "1">>)],
    [EmptyQuery EXCEPT !.genEdCategory = Some("Ethics and Civics")],
    [EmptyQuery EXCEPT !.preferredTimes = <<<<"m", "o", "n">>>>] }

\* a file is absent, or holds up to n rows, no row twice
Files(rows, n) ==
    {Null} \cup {Some(f) : f \in UNION {{g \in [1..k -> rows] :
                                            \A i, j \in 1..k : g[i] = g[j] => i = j} :
                                        k \in 0..n}}

Init ==
    /\ qreportFile \in Files(QRows, MaxQRows)
    /\ catalogFile \in Files(CatalogRows, MaxCatRows)
    /\ canvasFile \in CanvasFiles
    /\ qreportCache = Null
    /\ catalogCache = Null
    /\ pending = FALSE
    /\ query = EmptyQuery
    /\ result = <<>>
    /\ gemsDone = FALSE
    /\ lookId = <<>>
    /\ lookOut = <<>>
    /\ lookExists = FALSE
    /\ detailsDone = FALSE
    /\ existsDone = FALSE
    /\ firstQ = <<>>
    /\ lastQ = <<>>
    /\ firstCat = <<>>
    /\ lastCat = <<>>
    /\ sIn = <<>>
    /\ sArg = <<>>
    /\ sOut = <<>>
    /\ sCalls = 0
    /\ rankIn = <<>>
    /\ rankPrefs = [preferredTimes |-> <<>>]
    /\ rankOut = <<>>
    /\ rankDone = FALSE
    /\ csvLine = <<>>
    /\ csvFields = <<>>
    /\ csvDone = FALSE
    /\ fetchFilters = <<>>
    /\ fetched = <<>>
    /\ fetchDone = FALSE
    /\ callPc = <<>>
    /\ callQuery = <<>>
    /\ callQCourses = <<>>
    /\ callCatalog = <<>>
    /\ callSignals = <<>>
    /\ callResult = <<>>
    /\ conversationCache = <<>>
    /\ accepted = <<>>
    /\ textMessage = <<>>

\* a message arrives and its query is extracted; the request before it has
\* been answered
Receive(q) ==
    /\ ~pending
    /\ ~gemsDone
    /\ pending' = TRUE
    /\ query' = q
    /\ result' = <<>>
    /\ gemsDone' = FALSE
    /\ UNCHANGED <<qreportFile, catalogFile, canvasFile, qreportCache, catalogCache,
                   stripVars, rankVars, lookVars, loadVars, csvVars, fetchVars, callVars, chatVars, msgVars>>

\* the findGems call of the request, from fetchCourses to the ranked list it
\* returns
FindGems ==
    /\ pending
    /\ LET qLoad == qreportLoadData(qreportCache, qreportFile)
           catalogLoad == catalogLoadData(catalogCache, catalogFile)
           qCourses == applyFilters(qLoad.courses, query.filters)
       IN  /\ qreportCache' = qLoad.cache
           /\ catalogCache' = catalogLoad.cache
           /\ result' = findGems(query, qCourses, catalogLoad.courses, canvasFile)
    /\ pending' = FALSE
    /\ gemsDone' = TRUE
    /\ UNCHANGED <<query, qreportFile, catalogFile, canvasFile, stripVars, rankVars, lookVars, loadVars, csvVars, fetchVars, callVars, chatVars, msgVars>>

\* the answer built from the ranked list is sent, which ends the request
Respond ==
    /\ gemsDone
    /\ gemsDone' = FALSE
    /\ query' = EmptyQuery
    /\ result' = <<>>
    /\ UNCHANGED <<pending, qreportFile, catalogFile, canvasFile, qreportCache, catalogCache,
                   stripVars, rankVars, lookVars, loadVars, csvVars, fetchVars, callVars, chatVars, msgVars>>

Next == (\E q \in Queries : Receive(q)) \/ FindGems \/ Respond

Spec == Init /\ [][Next]_vars

(***************************************************************************)
(* SpecJoin: the requests of Spec in a process whose evaluation file and   *)
(* catalog file hold a course under its base identifier and under a        *)
(* section identifier, the course in several terms, and a course under the *)
(* two spellings of its department.                                        *)
(***************************************************************************)
JoinQRows == {
    QRow(<<"A", " ", "1">>, <<"A", "r", "t">>, Some(400), Some(500), Null),
    QRow(<<"A", " ", "1", " ", "0", "0", "1">>, <<"A", "r", "t">>, Some(450), Some(400), Null),
    QRow(<<"C", "S", " ", "5", "0">>, <<"I", "n", "t", "r", "o">>, Some(420), Some(1400), Null) }

\* the requirements cell tells the rows apart
JoinCatalogRows == {
    [CatalogRow(<<"1">>, <<"A">>, <<"1">>, <<"A", "r", "t", "s">>, <<>>, <<>>, <<>>, <<>>) EXCEPT !.requirements = <<"r", "1">>],
    [CatalogRow(<<"2">>, <<"A">>, <<"1">>, <<"A", "r", "t", "s">>, <<"2", "0", "2", "5", " ", "F", "a", "l", "l">>, <<>>, <<>>, <<>>) EXCEPT !.requirements = <<"r", "2">>],
    [CatalogRow(<<"3">>, <<"A">>, <<"1">>, <<"A", "r", "t", "s">>, <<"2", "0", "2", "6", " ", "S", "p", "r", "i", "n", "g">>, <<>>, <<>>, <<>>) EXCEPT !.requirements = <<"r", "3">>],
    [CatalogRow(<<"4">>, <<"A">>, <<"1">>, <<"A", "r", "t", "s">>, <<"2", "0", "2", "6", " ", "F", "a", "l", "l">>, <<>>, <<>>, <<>>) EXCEPT !.requirements = <<"r", "4">>],
    [CatalogRow(<<"5">>, <<"A">>, <<"1", " ", "0", "0", "1">>, <<"A", "r", "t", "s">>, <<>>, <<"M", "o", "n">>, <<"9", ":", "0", "0", " ", "A", "M">>, <<"1", "0", ":", "0", "0", " ", "A", "M">>) EXCEPT !.requirements = <<"r", "5">>],
    [CatalogRow(<<"6">>, <<"C", "O", "M", "P", "S", "C", "I">>, <<"5", "0">>, <<"C", "o", "m", "p", "u", "t", "e", "r", " ", "S", "c", "i", "e", "n", "c", "e">>, <<>>, <<"M", "o", "n", "/", "W", "e", "d">>, <<"1", "0", ":", "3", "0", " ", "A", "M">>, <<"1", "1", ":", "4", "5", " ", "A", "M">>)
        EXCEPT !.requirements = <<"r", "6">>] }

JoinQueries == {EmptyQuery, [EmptyQuery EXCEPT !.preferredTimes = <<<<"m", "o", "n">>>>]}

InitJoin ==
    /\ qreportFile \in Files(JoinQRows, MaxJoinQRows)
    /\ catalogFile \in Files(JoinCatalogRows, MaxJoinCatRows)
    /\ canvasFile = Null
    /\ qreportCache = Null
    /\ catalogCache = Null
    /\ pending = FALSE
    /\ query = EmptyQuery
    /\ result = <<>>
    /\ gemsDone = FALSE
    /\ lookId = <<>>
    /\ lookOut = <<>>
    /\ lookExists = FALSE
    /\ detailsDone = FALSE
    /\ existsDone = FALSE
    /\ firstQ = <<>>
    /\ lastQ = <<>>
    /\ firstCat = <<>>
    /\ lastCat = <<>>
    /\ sIn = <<>>
    /\ sArg = <<>>
    /\ sOut = <<>>
    /\ sCalls = 0
    /\ rankIn = <<>>
    /\ rankPrefs = [preferredTimes |-> <<>>]
    /\ rankOut = <<>>
    /\ rankDone = FALSE
    /\ csvLine = <<>>
    /\ csvFields = <<>>
    /\ csvDone = FALSE
    /\ fetchFilters = <<>>
    /\ fetched = <<>>
    /\ fetchDone = FALSE
    /\ callPc = <<>>
    /\ callQuery = <<>>
    /\ callQCourses = <<>>
    /\ callCatalog = <<>>
    /\ callSignals = <<>>
    /\ callResult = <<>>
    /\ conversationCache = <<>>
    /\ accepted = <<>>
    /\ textMessage = <<>>

NextJoin == (\E q \in JoinQueries : Receive(q)) \/ FindGems \/ Respond

SpecJoin == InitJoin /\ [][NextJoin]_vars

(***************************************************************************)
(* SpecFilter: fetchCourses called with threshold filters any number of    *)
(* times, next to requests whose findGems call reads the same loader.      *)
(***************************************************************************)
\* a record on every threshold, a record without any value, and a record
\* above every threshold
FilterQRows == {
    [QRow(<<"A", " ", "1">>, <<"A", "r", "t">>, Some(450), Some(500), Null) EXCEPT !.gem_probability_mean = Some(50)],
    QRow(<<"B", " ", "2">>, <<"B", "i", "o">>, Null, Null, Null),
    [QRow(<<"C", " ", "3">>, <<"C", "h", "e", "m">>, Some(500), Some(600), Null) EXCEPT !.gem_probability_mean = Some(60)] }

FilterSets == {
    EmptyQuery.filters,
    [EmptyQuery.filters EXCEPT !.minRating = Some(450)],
    [EmptyQuery.filters EXCEPT !.maxHrsPerWeek = Some(500)],
    [EmptyQuery.filters EXCEPT !.minGemProb = Some(50)],
    [EmptyQuery.filters EXCEPT !.minRating = Some(500), !.maxHrsPerWeek = Some(500)],
    [EmptyQuery.filters EXCEPT !.minRating = Some(450), !.minGemProb = Some(60)] }

FilterQueries == {
    [EmptyQuery EXCEPT !.maxHrsPerWeek = Some(500)],
    [EmptyQuery EXCEPT !.filters.maxHrsPerWeek = Some(500)] }

InitFilter ==
    /\ qreportFile \in Files(FilterQRows, MaxFilterRows)
    /\ catalogFile = Null
    /\ canvasFile = Null
    /\ qreportCache = Null
    /\ catalogCache = Null
    /\ pending = FALSE
    /\ query = EmptyQuery
    /\ result = <<>>
    /\ gemsDone = FALSE
    /\ fetchFilters = <<>>
    /\ fetched = <<>>
    /\ fetchDone = FALSE
    /\ lookId = <<>>
    /\ lookOut = <<>>
    /\ lookExists = FALSE
    /\ detailsDone = FALSE
    /\ existsDone = FALSE
    /\ firstQ = <<>>
    /\ lastQ = <<>>
    /\ firstCat = <<>>
    /\ lastCat = <<>>
    /\ sIn = <<>>
    /\ sArg = <<>>
    /\ sOut = <<>>
    /\ sCalls = 0
    /\ rankIn = <<>>
    /\ rankPrefs = [preferredTimes |-> <<>>]
    /\ rankOut = <<>>
    /\ rankDone = FALSE
    /\ csvLine = <<>>
    /\ csvFields = <<>>
    /\ csvDone = FALSE
    /\ callPc = <<>>
    /\ callQuery = <<>>
    /\ callQCourses = <<>>
    /\ callCatalog = <<>>
    /\ callSignals = <<>>
    /\ callResult = <<>>
    /\ conversationCache = <<>>
    /\ accepted = <<>>
    /\ textMessage = <<>>

\* qreportLoader.fetchCourses(filters)
FetchCourses(filters) ==
    /\ LET load == qreportLoadData(qreportCache, qreportFile)
       IN  /\ qreportCache' = load.cache
           /\ fetched' = applyFilters(load.courses, filters)
    /\ fetchFilters' = filters
    /\ fetchDone' = TRUE
    /\ UNCHANGED <<qreportFile, catalogFile, canvasFile, catalogCache, pending, query, result,
                   gemsDone, stripVars, rankVars, lookVars, loadVars, csvVars, callVars, chatVars, msgVars>>

NextFilter ==
    \/ \E filters \in FilterSets : FetchCourses(filters)
    \/ \E q \in FilterQueries : Receive(q)
    \/ FindGems
    \/ Respond

SpecFilter == InitFilter /\ [][NextFilter]_vars

(***************************************************************************)
(* SpecConcurrent: several findGems calls in one process.  A call gives up *)
(* control at its two await expressions only, so it runs in three steps    *)
(* and the steps of different calls interleave in every order.             *)
(***************************************************************************)
Calls == 1..NumCalls

\* findGems from the return of loadSignals to its own return
findGemsAfterSignals(q, qCourses, catalogUnique, canvasSignals) ==
    LET merged ==
            IF qCourses = <<>> /\ catalogUnique # <<>>
            THEN mergeFallback(catalogUnique)
            ELSE mergeNormal(qCourses, catalogUnique, canvasSignals)
        filtered == applyConstraints(dedupMerged(merged), q)
    IN  rankCourses(filtered, [preferredTimes |-> q.preferredTimes])

\* the two sections of one course, and the catalog rows with a meeting time
SharedQRows == {row \in QRows : row.course_score_mean[1] >= 350}
SharedCatalogRows == {row \in CatalogRows : row.weekdays # <<>>}
SharedQueries == {EmptyQuery, [EmptyQuery EXCEPT !.filters.minRating = Some(450)]}

InitConcurrent ==
    /\ qreportFile \in Files(SharedQRows, MaxSharedRows)
    /\ catalogFile \in Files(SharedCatalogRows, MaxSharedRows)
    /\ canvasFile \in CanvasFiles
    /\ qreportCache = Null
    /\ catalogCache = Null
    /\ callPc = [c \in Calls |-> "idle"]
    /\ callQuery = [c \in Calls |-> EmptyQuery]
    /\ callQCourses = [c \in Calls |-> <<>>]
    /\ callCatalog = [c \in Calls |-> <<>>]
    /\ callSignals = [c \in Calls |-> <<>>]
    /\ callResult = [c \in Calls |-> <<>>]
    /\ pending = FALSE
    /\ query = EmptyQuery
    /\ result = <<>>
    /\ gemsDone = FALSE
    /\ fetchFilters = <<>>
    /\ fetched = <<>>
    /\ fetchDone = FALSE
    /\ lookId = <<>>
    /\ lookOut = <<>>
    /\ lookExists = FALSE
    /\ detailsDone = FALSE
    /\ existsDone = FALSE
    /\ firstQ = <<>>
    /\ lastQ = <<>>
    /\ firstCat = <<>>
    /\ lastCat = <<>>
    /\ sIn = <<>>
    /\ sArg = <<>>
    /\ sOut = <<>>
    /\ sCalls = 0
    /\ rankIn = <<>>
    /\ rankPrefs = [preferredTimes |-> <<>>]
    /\ rankOut = <<>>
    /\ rankDone = FALSE
    /\ csvLine = <<>>
    /\ csvFields = <<>>
    /\ csvDone = FALSE
    /\ conversationCache = <<>>
    /\ accepted = <<>>
    /\ textMessage = <<>>

\* findGems(q) is called: fetchCourses runs to its end and the call waits for
\* the promise it returned
CallFindGems(c, q) ==
    /\ callPc[c] = "idle"
    /\ LET load == qreportLoadData(qreportCache, qreportFile)
       IN  /\ qreportCache' = load.cache
           /\ callQCourses' = [callQCourses EXCEPT ![c] = applyFilters(load.courses, q.filters)]
    /\ callQuery' = [callQuery EXCEPT ![c] = q]
    /\ callPc' = [callPc EXCEPT ![c] = "fetched"]
    /\ UNCHANGED <<callCatalog, callSignals, callResult, qreportFile, catalogFile, canvasFile,
                   catalogCache, pending, query, result, gemsDone,
                   stripVars, rankVars, lookVars, loadVars, csvVars, fetchVars, chatVars, msgVars>>

\* the call resumes: the catalog is loaded and deduplicated, loadSignals runs
\* to its end and the call waits for the promise it returned
ResumeAfterFetch(c) ==
    /\ callPc[c] = "fetched"
    /\ LET load == catalogLoadData(catalogCache, catalogFile)
           courseIds == [i \in 1..Len(callQCourses[c]) |-> callQCourses[c][i].courseId[1]]
       IN  /\ catalogCache' = load.cache
           /\ callCatalog' = [callCatalog EXCEPT ![c] = dedupCatalog(load.courses)]
           /\ callSignals' = [callSignals EXCEPT ![c] =
                  loadSignals(canvasFile, SelectSeq(courseIds, LAMBDA id : id # <<>>))]
    /\ callPc' = [callPc EXCEPT ![c] = "signalled"]
    /\ UNCHANGED <<callQuery, callQCourses, callResult, qreportFile, catalogFile, canvasFile,
                   qreportCache, pending, query, result, gemsDone,
                   stripVars, rankVars, lookVars, loadVars, csvVars, fetchVars, chatVars, msgVars>>

\* the call resumes: merge, final deduplication, constraints, ranking, return
ResumeAfterSignals(c) ==
    /\ callPc[c] = "signalled"
    /\ callResult' = [callResult EXCEPT ![c] =
           findGemsAfterSignals(callQuery[c], callQCourses[c], callCatalog[c], callSignals[c])]
    /\ callPc' = [callPc EXCEPT ![c] = "done"]
    /\ UNCHANGED <<callQuery, callQCourses, callCatalog, callSignals, gemVars,
                   stripVars, rankVars, lookVars, loadVars, csvVars, fetchVars, chatVars, msgVars>>

NextConcurrent ==
    \E c \in Calls :
        \/ \E q \in SharedQueries : CallFindGems(c, q)
        \/ ResumeAfterFetch(c)
        \/ ResumeAfterSignals(c)

SpecConcurrent == InitConcurrent /\ [][NextConcurrent]_vars

(***************************************************************************)
(* Catalog lookup                                                          *)
(***************************************************************************)
CS_PREFIX == <<"C", "S", " ">>
COMPSCI_PREFIX == <<"C", "O", "M", "P", "S", "C", "I", " ">>

\* Array.prototype.find over the indices that satisfy the callback: the
\* element of least index, Null (undefined) when there is none
findFirst(courses, hits) ==
    IF hits = {} THEN Null
    ELSE Some(courses[CHOOSE i \in hits : \A j \in hits : i <= j])

\* mutant: the lookup starts with the search that accepts a prefix
getCourseByIdPrefixFirst(courses, courseId) ==
    IF ~Truthy(courseId) THEN Null
    ELSE LET searchId == trim(toUpperCase(courseId[1]))
         IN  findFirst(courses, {i \in 1..Len(courses) :
                 LET cId == trim(toUpperCase(courses[i].courseId[1]))
                 IN  cId = searchId \/ startsWith(cId, searchId \o <<" ">>)})

\* CatalogAYLoader.getCourseById on the courses loadData returned; courseId
\* is Null for an argument that is undefined
getCourseById(courses, courseId) ==
    IF ~Truthy(courseId) THEN Null
    ELSE LET searchId == trim(toUpperCase(courseId[1]))
             exact == {i \in 1..Len(courses) :
                          trim(toUpperCase(courses[i].courseId[1])) = searchId}
             matching(id) == {i \in 1..Len(courses) :
                          LET cId == trim(toUpperCase(courses[i].courseId[1]))
                          IN  cId = id \/ startsWith(cId, id \o <<" ">>)}
         IN  IF exact # {} THEN findFirst(courses, exact)
             ELSE IF matching(searchId) # {} THEN findFirst(courses, matching(searchId))
             ELSE IF startsWith(searchId, CS_PREFIX)
                  THEN findFirst(courses, matching(COMPSCI_PREFIX
                           \o SubSeq(searchId, Len(CS_PREFIX) + 1, Len(searchId))))
             ELSE IF startsWith(searchId, COMPSCI_PREFIX)
                  THEN findFirst(courses, matching(CS_PREFIX
                           \o SubSeq(searchId, Len(COMPSCI_PREFIX) + 1, Len(searchId))))
             ELSE Null

\* getCourseDetails and courseExists of the Gem Miner service
getCourseDetails(courses, courseId) == getCourseById(courses, courseId)
courseExists(courses, courseId) == getCourseById(courses, courseId) # Null

(***************************************************************************)
(* SpecLookup: getCourseDetails and courseExists called with an identifier *)
(* of the table, in a process whose catalog file holds distinct rows of    *)
(* the table below.                                                        *)
(***************************************************************************)
\* a course under both department codes and in lower case, one of its
\* sections, and a row whose composed identifier is empty
LookupRows == {
    CatalogRow(<<"1">>, <<"C", "S">>, <<"5", "0">>, <<>>, <<>>, <<>>, <<>>, <<>>),
    CatalogRow(<<"2">>, <<"C", "S">>, <<"5", "0", " ", "0", "0", "1">>, <<>>, <<>>, <<>>, <<>>, <<>>),
    CatalogRow(<<"3">>, <<"C", "O", "M", "P", "S", "C", "I">>, <<"5", "0">>, <<>>, <<>>, <<>>, <<>>, <<>>),
    CatalogRow(<<"4">>, <<"c", "s">>, <<"5", "0">>, <<>>, <<>>, <<>>, <<>>, <<>>),
    CatalogRow(<<"5">>, <<>>, <<>>, <<>>, <<>>, <<>>, <<>>, <<>>) }

\* no argument, an empty and a blank one, identifiers in either case, with
\* white space around them, of a section, and a department code alone
LookupIds == {
    Null, Some(<<>>), Some(<<" ">>), Some(<<"c", "s", " ", "5", "0">>), Some(<<" ", "C", "S", " ", "5", "0", " ">>),
    Some(<<"C", "O", "M", "P", "S", "C", "I", " ", "5", "0">>), Some(<<"C", "S", " ", "5", "0", " ", "0", "0", "1">>), Some(<<"C", "S">>) }

InitLookup ==
    /\ catalogFile \in Files(LookupRows, MaxLookupRows)
    /\ catalogCache = Null
    /\ lookId \in LookupIds
    /\ lookOut = Null
    /\ lookExists = FALSE
    /\ detailsDone = FALSE
    /\ existsDone = FALSE
    /\ qreportFile = Null
    /\ canvasFile = Null
    /\ qreportCache = Null
    /\ pending = FALSE
    /\ query = EmptyQuery
    /\ result = <<>>
    /\ gemsDone = FALSE
    /\ firstQ = <<>>
    /\ lastQ = <<>>
    /\ firstCat = <<>>
    /\ lastCat = <<>>
    /\ sIn = <<>>
    /\ sArg = <<>>
    /\ sOut = <<>>
    /\ sCalls = 0
    /\ rankIn = <<>>
    /\ rankPrefs = [preferredTimes |-> <<>>]
    /\ rankOut = <<>>
    /\ rankDone = FALSE
    /\ csvLine = <<>>
    /\ csvFields = <<>>
    /\ csvDone = FALSE
    /\ fetchFilters = <<>>
    /\ fetched = <<>>
    /\ fetchDone = FALSE
    /\ callPc = <<>>
    /\ callQuery = <<>>
    /\ callQCourses = <<>>
    /\ callCatalog = <<>>
    /\ callSignals = <<>>
    /\ callResult = <<>>
    /\ conversationCache = <<>>
    /\ accepted = <<>>
    /\ textMessage = <<>>

\* getCourseDetails(lookId)
GetCourseDetails ==
    /\ ~detailsDone
    /\ LET load == catalogLoadData(catalogCache, catalogFile)
       IN  /\ catalogCache' = load.cache
           /\ lookOut' = getCourseDetails(load.courses, lookId)
    /\ detailsDone' = TRUE
    /\ UNCHANGED <<lookId, lookExists, existsDone, stripVars, rankVars, loadVars,
                   qreportFile, catalogFile, canvasFile, qreportCache,
                   pending, query, result, gemsDone, csvVars, fetchVars, callVars, chatVars, msgVars>>

\* courseExists(lookId)
CourseExists ==
    /\ ~existsDone
    /\ LET load == catalogLoadData(catalogCache, catalogFile)
       IN  /\ catalogCache' = load.cache
           /\ lookExists' = courseExists(load.courses, lookId)
    /\ existsDone' = TRUE
    /\ UNCHANGED <<lookId, lookOut, detailsDone, stripVars, rankVars, loadVars,
                   qreportFile, catalogFile, canvasFile, qreportCache,
                   pending, query, result, gemsDone, csvVars, fetchVars, callVars, chatVars, msgVars>>

NextLookup == GetCourseDetails \/ CourseExists

SpecLookup == InitLookup /\ [][NextLookup]_vars

(***************************************************************************)
(* SpecLoad: loadData of the two loaders called any number of times in one *)
(* process while the source files are created, changed and deleted.        *)
(***************************************************************************)
\* the rows a changing file is written with: the evaluation rows that have a
\* workload, the catalog rows that have a term
ChangingQRows == {row \in QRows : row.workload_score_mean # Null}
ChangingCatalogRows == {row \in CatalogRows : row.term # <<>>}

InitLoad ==
    /\ qreportFile \in Files(ChangingQRows, MaxChangingRows)
    /\ catalogFile \in Files(ChangingCatalogRows, MaxChangingRows)
    /\ qreportCache = Null
    /\ catalogCache = Null
    /\ firstQ = Null
    /\ lastQ = Null
    /\ firstCat = Null
    /\ lastCat = Null
    /\ canvasFile = Null
    /\ pending = FALSE
    /\ query = EmptyQuery
    /\ result = <<>>
    /\ gemsDone = FALSE
    /\ lookId = <<>>
    /\ lookOut = <<>>
    /\ lookExists = FALSE
    /\ detailsDone = FALSE
    /\ existsDone = FALSE
    /\ sIn = <<>>
    /\ sArg = <<>>
    /\ sOut = <<>>
    /\ sCalls = 0
    /\ rankIn = <<>>
    /\ rankPrefs = [preferredTimes |-> <<>>]
    /\ rankOut = <<>>
    /\ rankDone = FALSE
    /\ csvLine = <<>>
    /\ csvFields = <<>>
    /\ csvDone = FALSE
    /\ fetchFilters = <<>>
    /\ fetched = <<>>
    /\ fetchDone = FALSE
    /\ callPc = <<>>
    /\ callQuery = <<>>
    /\ callQCourses = <<>>
    /\ callCatalog = <<>>
    /\ callSignals = <<>>
    /\ callResult = <<>>
    /\ conversationCache = <<>>
    /\ accepted = <<>>
    /\ textMessage = <<>>

\* qreportLoader.loadData()
LoadQReport ==
    /\ LET load == qreportLoadData(qreportCache, qreportFile)
       IN  /\ qreportCache' = load.cache
           /\ lastQ' = Some(load.courses)
           /\ firstQ' = IF firstQ = Null THEN Some(load.courses) ELSE firstQ
    /\ UNCHANGED <<firstCat, lastCat, qreportFile, catalogFile, canvasFile, catalogCache,
                   pending, query, result, gemsDone, stripVars, rankVars, lookVars, csvVars, fetchVars, callVars, chatVars, msgVars>>

\* catalogAYLoader.loadData()
LoadCatalog ==
    /\ LET load == catalogLoadData(catalogCache, catalogFile)
       IN  /\ catalogCache' = load.cache
           /\ lastCat' = Some(load.courses)
           /\ firstCat' = IF firstCat = Null THEN Some(load.courses) ELSE firstCat
    /\ UNCHANGED <<firstQ, lastQ, qreportFile, catalogFile, canvasFile, qreportCache,
                   pending, query, result, gemsDone, stripVars, rankVars, lookVars, csvVars, fetchVars, callVars, chatVars, msgVars>>

\* the evaluation file is created, rewritten or deleted
ChangeQReportFile(file) ==
    /\ file # qreportFile
    /\ qreportFile' = file
    /\ UNCHANGED <<catalogFile, canvasFile, qreportCache, catalogCache,
                   pending, query, result, gemsDone, stripVars, rankVars, lookVars, loadVars, csvVars, fetchVars, callVars, chatVars, msgVars>>

\* the catalog file is created, rewritten or deleted
ChangeCatalogFile(file) ==
    /\ file # catalogFile
    /\ catalogFile' = file
    /\ UNCHANGED <<qreportFile, canvasFile, qreportCache, catalogCache,
                   pending, query, result, gemsDone, stripVars, rankVars, lookVars, loadVars, csvVars, fetchVars, callVars, chatVars, msgVars>>

NextLoad ==
    \/ LoadQReport
    \/ LoadCatalog
    \/ \E file \in Files(ChangingQRows, MaxChangingRows) : ChangeQReportFile(file)
    \/ \E file \in Files(ChangingCatalogRows, MaxChangingRows) : ChangeCatalogFile(file)

SpecLoad == InitLoad /\ [][NextLoad]_vars

(***************************************************************************)
(* Conversation cache                                                      *)
(***************************************************************************)
MAX_IMAGES_PER_CHAT == 5
MAX_REQUESTS_PER_CHAT == 10
MAX_RESPONSES_PER_CHAT == 10

\* an entry of the Map as getOrCreateCache creates it.  inactive stands for
\* Date.now() - lastActivity > CACHE_EXPIRY_MS
NewEntry == [images |-> <<>>, requests |-> <<>>, responses |-> <<>>, inactive |-> FALSE]

\* the Map after getOrCreateCache(chatId)
getOrCreateCache(cache, chatId) ==
    IF cache[chatId] = Null THEN [cache EXCEPT ![chatId] = Some(NewEntry)] ELSE cache

\* mutant: the list of images is never shortened
storeImageUnbounded(cache, chatId, imageUrl, userMessage, now) ==
    LET created == getOrCreateCache(cache, chatId)
        entry == created[chatId][1]
        pushed == Append(entry.images, [url |-> imageUrl, message |-> userMessage, timestamp |-> now])
    IN  [created EXCEPT ![chatId] = Some([entry EXCEPT !.images = pushed, !.inactive = FALSE])]

\* the Map after storeImage(chatId, imageUrl, userMessage) at time now
storeImage(cache, chatId, imageUrl, userMessage, now) ==
    LET created == getOrCreateCache(cache, chatId)
        entry == created[chatId][1]
        pushed == Append(entry.images, [url |-> imageUrl, message |-> userMessage, timestamp |-> now])
        kept == IF Len(pushed) > MAX_IMAGES_PER_CHAT THEN Tail(pushed) ELSE pushed
    IN  [created EXCEPT ![chatId] = Some([entry EXCEPT !.images = kept, !.inactive = FALSE])]

isTrivial(request) ==
    \/ Len(request) < 3
    \/ toLowerCase(request) \in {<<"y", "e", "s">>, <<"n", "o">>, <<"o", "k">>, <<"o", "k", "a", "y">>}
    \/ request = <<"[", "I", "m", "a", "g", "e", "]">>

\* mutant: a trivial message is stored like any other
storeRequestKeepsTrivial(cache, chatId, request, now) ==
    LET created == getOrCreateCache(cache, chatId)
        entry == created[chatId][1]
        pushed == Append(entry.requests, [text |-> request, timestamp |-> now])
        kept == IF Len(pushed) > MAX_REQUESTS_PER_CHAT THEN Tail(pushed) ELSE pushed
    IN  [created EXCEPT ![chatId] = Some([entry EXCEPT !.requests = kept, !.inactive = FALSE])]

\* the Map after storeRequest(chatId, request) at time now
storeRequest(cache, chatId, request, now) ==
    LET created == getOrCreateCache(cache, chatId)
        entry == created[chatId][1]
        pushed == Append(entry.requests, [text |-> request, timestamp |-> now])
        kept == IF Len(pushed) > MAX_REQUESTS_PER_CHAT THEN Tail(pushed) ELSE pushed
    IN  IF isTrivial(request) THEN created
        ELSE [created EXCEPT ![chatId] = Some([entry EXCEPT !.requests = kept, !.inactive = FALSE])]

\* the Map after storeResponse(chatId, response) at time now
storeResponse(cache, chatId, response, now) ==
    LET created == getOrCreateCache(cache, chatId)
        entry == created[chatId][1]
        pushed == Append(entry.responses, [text |-> response, timestamp |-> now])
        kept == IF Len(pushed) > MAX_RESPONSES_PER_CHAT THEN Tail(pushed) ELSE pushed
    IN  IF trim(response) = <<>> THEN created
        ELSE [created EXCEPT ![chatId] = Some([entry EXCEPT !.responses = kept, !.inactive = FALSE])]

\* Array.prototype.slice(-n) for n > 0
lastItems(list, n) == SubSeq(list, Max(1, Len(list) - n + 1), Len(list))

\* getRecentImage(chatId) with the default lookbackLimit
getRecentImage(cache, chatId) ==
    IF cache[chatId] = Null \/ cache[chatId][1].images = <<>> THEN Null
    ELSE LET recentImages == lastItems(cache[chatId][1].images, 5)
         IN  Some(recentImages[Len(recentImages)].url)

\* getRecentRequest(chatId) with the default lookbackLimit
getRecentRequest(cache, chatId) ==
    IF cache[chatId] = Null \/ cache[chatId][1].requests = <<>> THEN Null
    ELSE LET recentRequests == lastItems(cache[chatId][1].requests, 5)
         IN  Some(recentRequests[Len(recentRequests)].text)

\* the Map after clearChatCache(chatId)
clearChatCache(cache, chatId) == [cache EXCEPT ![chatId] = Null]

\* the Map after the callback of the clean-up timer
cleanUpExpired(cache) ==
    [chatId \in DOMAIN cache |->
        IF cache[chatId] # Null /\ cache[chatId][1].inactive THEN Null ELSE cache[chatId]]

(***************************************************************************)
(* SpecChat: the operations of the conversation cache on two chats, one of *)
(* which is used until each of its lists has overflowed.  The n-th image,  *)
(* request or response accepted in a chat since its entry was last deleted *)
(* has the text "img n", "req n" or "res n" and the timestamp n.           *)
(***************************************************************************)
Chats == {"a", "b"}

Digits == <<"0", "1", "2", "3", "4", "5", "6", "7", "8", "9">>

\* the decimal numeral of n, n < 100
Numeral(n) ==
    IF n < 10 THEN <<Digits[n + 1]>> ELSE <<Digits[(n \div 10) + 1], Digits[(n % 10) + 1]>>

ImageUrl(n) == <<"i", "m", "g", " ">> \o Numeral(n)
RequestText(n) == <<"r", "e", "q", " ">> \o Numeral(n)
ResponseText(n) == <<"r", "e", "s", " ">> \o Numeral(n)

\* messages storeRequest is to ignore, and one in other letter case
TrivialRequests == {<<"o", "k">>, <<"Y", "e", "s">>, <<"o", "k", "a", "y">>, <<"n", "o">>, <<"[", "I", "m", "a", "g", "e", "]">>, <<"h", "i">>}

\* responses storeResponse is to ignore
EmptyResponses == {<<>>, <<" ">>}

StoresCap(chatId) ==
    IF chatId = "a"
    THEN [images |-> MaxImageStores, requests |-> MaxTextStores, responses |-> MaxTextStores]
    ELSE [images |-> MaxStoresOtherChat, requests |-> MaxStoresOtherChat,
          responses |-> MaxStoresOtherChat]

NoneAccepted == [images |-> 0, requests |-> 0, responses |-> 0]

InitChat ==
    /\ conversationCache = [chatId \in Chats |-> Null]
    /\ accepted = [chatId \in Chats |-> NoneAccepted]
    /\ callPc = <<>>
    /\ callQuery = <<>>
    /\ callQCourses = <<>>
    /\ callCatalog = <<>>
    /\ callSignals = <<>>
    /\ callResult = <<>>
    /\ qreportFile = Null
    /\ catalogFile = Null
    /\ canvasFile = Null
    /\ qreportCache = Null
    /\ catalogCache = Null
    /\ pending = FALSE
    /\ query = <<>>
    /\ result = <<>>
    /\ gemsDone = FALSE
    /\ fetchFilters = <<>>
    /\ fetched = <<>>
    /\ fetchDone = FALSE
    /\ lookId = <<>>
    /\ lookOut = <<>>
    /\ lookExists = FALSE
    /\ detailsDone = FALSE
    /\ existsDone = FALSE
    /\ firstQ = <<>>
    /\ lastQ = <<>>
    /\ firstCat = <<>>
    /\ lastCat = <<>>
    /\ sIn = <<>>
    /\ sArg = <<>>
    /\ sOut = <<>>
    /\ sCalls = 0
    /\ rankIn = <<>>
    /\ rankPrefs = [preferredTimes |-> <<>>]
    /\ rankOut = <<>>
    /\ rankDone = FALSE
    /\ csvLine = <<>>
    /\ csvFields = <<>>
    /\ csvDone = FALSE
    /\ textMessage = <<>>

ChatUnchanged ==
    UNCHANGED <<stripVars, rankVars, gemVars, lookVars, loadVars, csvVars, fetchVars, callVars, msgVars>>

\* storeImage(chatId, url) with the next image of the chat
StoreImage(chatId) ==
    LET n == accepted[chatId].images + 1
    IN  /\ n <= StoresCap(chatId).images
        /\ conversationCache' = storeImage(conversationCache, chatId, ImageUrl(n), Null, n)
        /\ accepted' = [accepted EXCEPT ![chatId].images = n]
        /\ ChatUnchanged

\* storeRequest(chatId, text) with the next request of the chat
StoreRequest(chatId) ==
    LET n == accepted[chatId].requests + 1
    IN  /\ n <= StoresCap(chatId).requests
        /\ conversationCache' = storeRequest(conversationCache, chatId, RequestText(n), n)
        /\ accepted' = [accepted EXCEPT ![chatId].requests = n]
        /\ ChatUnchanged

\* storeRequest(chatId, text) with a message that is to be ignored
StoreTrivialRequest(chatId, request) ==
    /\ conversationCache' = storeRequest(conversationCache, chatId, request,
                                         accepted[chatId].requests + 1)
    /\ UNCHANGED accepted
    /\ ChatUnchanged

\* storeResponse(chatId, text) with the next response of the chat
StoreResponse(chatId) ==
    LET n == accepted[chatId].responses + 1
    IN  /\ n <= StoresCap(chatId).responses
        /\ conversationCache' = storeResponse(conversationCache, chatId, ResponseText(n), n)
        /\ accepted' = [accepted EXCEPT ![chatId].responses = n]
        /\ ChatUnchanged

\* storeResponse(chatId, text) with an empty response
StoreEmptyResponse(chatId, response) ==
    /\ conversationCache' = storeResponse(conversationCache, chatId, response,
                                          accepted[chatId].responses + 1)
    /\ UNCHANGED accepted
    /\ ChatUnchanged

\* clearChatCache(chatId)
ClearChatCache(chatId) ==
    /\ conversationCache' = clearChatCache(conversationCache, chatId)
    /\ accepted' = [accepted EXCEPT ![chatId] = NoneAccepted]
    /\ ChatUnchanged

\* more than CACHE_EXPIRY_MS go by without a call
ExpiryElapses ==
    /\ \E chatId \in Chats : conversationCache[chatId] # Null /\ ~conversationCache[chatId][1].inactive
    /\ conversationCache' =
           [chatId \in Chats |->
               IF conversationCache[chatId] = Null THEN Null
               ELSE Some([conversationCache[chatId][1] EXCEPT !.inactive = TRUE])]
    /\ UNCHANGED accepted
    /\ ChatUnchanged

\* the clean-up timer fires
CleanUp ==
    /\ conversationCache' = cleanUpExpired(conversationCache)
    /\ accepted' = [chatId \in Chats |->
                       IF conversationCache'[chatId] = Null THEN NoneAccepted
                       ELSE accepted[chatId]]
    /\ ChatUnchanged

NextChat ==
    \/ \E chatId \in Chats :
           \/ StoreImage(chatId)
           \/ StoreRequest(chatId)
           \/ \E request \in TrivialRequests : StoreTrivialRequest(chatId, request)
           \/ StoreResponse(chatId)
           \/ \E response \in EmptyResponses : StoreEmptyResponse(chatId, response)
           \/ ClearChatCache(chatId)
    \/ ExpiryElapses
    \/ CleanUp

SpecChat == InitChat /\ [][NextChat]_vars

(***************************************************************************)
(* The webhook: extractQuery derives the query of a text message, which    *)
(* processTextMode hands to findGems.                                      *)
(***************************************************************************)
\* \w of a regular expression
IsWord(c) ==
    \/ IsDigit(c)
    \/ c \in {LowerChars[i] : i \in 1..Len(LowerChars)}
    \/ c \in {UpperChars[i] : i \in 1..Len(UpperChars)}
    \/ c = "_"

\* [A-Z] of a regular expression with the i flag, \d and \s
Letters == {LowerChars[i] : i \in 1..Len(LowerChars)} \cup {UpperChars[i] : i \in 1..Len(UpperChars)}
DigitChars == {c \in {"0", "1", "2", "3", "4", "5", "6", "7", "8", "9"} : IsDigit(c)}
SpaceChars == {c \in {" ", "\t", "\n", "\r"} : IsSpace(c)}

\* \b of a regular expression between text[i - 1] and text[i]
wordBoundary(text, i) ==
    (i > 1 /\ IsWord(text[i - 1])) # (i <= Len(text) /\ IsWord(text[i]))

\* the position after the longest run from position i of characters of the class
runEnd(text, i, class) ==
    CHOOSE j \in i..(Len(text) + 1) :
        /\ \A k \in i..(j - 1) : text[k] \in class
        /\ j = Len(text) + 1 \/ text[j] \notin class

\* the word stands in the text from position i
matchAt(text, i, word) ==
    /\ i + Len(word) - 1 <= Len(text)
    /\ SubSeq(text, i, i + Len(word) - 1) = word

\* the alternatives of the department pattern of extractQuery, in its order
DEPARTMENT_TERMS == <<
    <<"c", "s">>,
    <<"c", "o", "m", "p", "u", "t", "e", "r", " ", "s", "c", "i", "e", "n", "c", "e">>,
    <<"c", "o", "m", "p", " ", "s", "c", "i">>,
    <<"c", "o", "m", "p", "s", "c", "i">>,
    <<"e", "c", "o", "n">>,
    <<"e", "c", "o", "n", "o", "m", "i", "c", "s">>,
    <<"g", "o", "v">>,
    <<"g", "o", "v", "e", "r", "n", "m", "e", "n", "t">>,
    <<"p", "o", "l", "i", "t", "i", "c", "a", "l", " ", "s", "c", "i", "e", "n", "c", "e">>,
    <<"p", "o", "l", "i", " ", "s", "c", "i">>,
    <<"h", "i", "s", "t">>,
    <<"h", "i", "s", "t", "o", "r", "y">>,
    <<"m", "a", "t", "h">>,
    <<"m", "a", "t", "h", "e", "m", "a", "t", "i", "c", "s">>,
    <<"s", "t", "a", "t">>,
    <<"s", "t", "a", "t", "s">>,
    <<"s", "t", "a", "t", "i", "s", "t", "i", "c", "s">>,
    <<"e", "n", "g">>,
    <<"e", "n", "g", "l", "i", "s", "h">>,
    <<"b", "i", "o">>,
    <<"b", "i", "o", "l", "o", "g", "y">>,
    <<"c", "h", "e", "m">>,
    <<"c", "h", "e", "m", "i", "s", "t", "r", "y">>,
    <<"p", "h", "y", "s">>,
    <<"p", "h", "y", "s", "i", "c", "s">>,
    <<"p", "s", "y">>,
    <<"p", "s", "y", "c", "h">>,
    <<"p", "s", "y", "c", "h", "o", "l", "o", "g", "y">>,
    <<"a", "n", "t", "h", "r", "o">>,
    <<"a", "n", "t", "h", "r", "o", "p", "o", "l", "o", "g", "y">>,
    <<"s", "o", "c">>,
    <<"s", "o", "c", "i", "o", "l", "o", "g", "y">>,
    <<"p", "h", "i", "l">>,
    <<"p", "h", "i", "l", "o", "s", "o", "p", "h", "y">>,
    <<"n", "e", "u", "r", "o">>,
    <<"n", "e", "u", "r", "o", "s", "c", "i", "e", "n", "c", "e">>,
    <<"d", "a", "t", "a", " ", "s", "c", "i", "e", "n", "c", "e">>,
    <<"l", "i", "n", "g">>,
    <<"l", "i", "n", "g", "u", "i", "s", "t", "i", "c", "s">> >>

\* the entries of DEPARTMENT_ALIASES under the terms of the department
\* pattern: the department code, Null for null
DEPARTMENT_ALIASES ==
    (<<"c", "s">> :> Some(<<"C", "O", "M", "P", "S", "C", "I">>))
    @@ (<<"c", "o", "m", "p", "u", "t", "e", "r", " ", "s", "c", "i", "e", "n", "c", "e">> :> Some(<<"C", "O", "M", "P", "S", "C", "I">>))
    @@ (<<"c", "o", "m", "p", " ", "s", "c", "i">> :> Some(<<"C", "O", "M", "P", "S", "C", "I">>))
    @@ (<<"c", "o", "m", "p", "s", "c", "i">> :> Some(<<"C", "O", "M", "P", "S", "C", "I">>))
    @@ (<<"e", "c", "o", "n">> :> Some(<<"E", "C", "O", "N">>))
    @@ (<<"e", "c", "o", "n", "o", "m", "i", "c", "s">> :> Some(<<"E", "C", "O", "N">>))
    @@ (<<"g", "o", "v">> :> Some(<<"G", "O", "V">>))
    @@ (<<"g", "o", "v", "e", "r", "n", "m", "e", "n", "t">> :> Some(<<"G", "O", "V">>))
    @@ (<<"p", "o", "l", "i", "t", "i", "c", "a", "l", " ", "s", "c", "i", "e", "n", "c", "e">> :> Some(<<"G", "O", "V">>))
    @@ (<<"p", "o", "l", "i", " ", "s", "c", "i">> :> Some(<<"G", "O", "V">>))
    @@ (<<"h", "i", "s", "t">> :> Some(<<"H", "I", "S", "T">>))
    @@ (<<"h", "i", "s", "t", "o", "r", "y">> :> Some(<<"H", "I", "S", "T">>))
    @@ (<<"m", "a", "t", "h">> :> Some(<<"M", "A", "T", "H">>))
    @@ (<<"m", "a", "t", "h", "e", "m", "a", "t", "i", "c", "s">> :> Some(<<"M", "A", "T", "H">>))
    @@ (<<"s", "t", "a", "t">> :> Some(<<"S", "T", "A", "T">>))
    @@ (<<"s", "t", "a", "t", "s">> :> Some(<<"S", "T", "A", "T">>))
    @@ (<<"s", "t", "a", "t", "i", "s", "t", "i", "c", "s">> :> Some(<<"S", "T", "A", "T">>))
    @@ (<<"e", "n", "g">> :> Some(<<"E", "N", "G", "L", "I", "S", "H">>))
    @@ (<<"e", "n", "g", "l", "i", "s", "h">> :> Some(<<"E", "N", "G", "L", "I", "S", "H">>))
    @@ (<<"b", "i", "o">> :> Some(<<"M", "C", "B">>))
    @@ (<<"b", "i", "o", "l", "o", "g", "y">> :> Some(<<"M", "C", "B">>))
    @@ (<<"c", "h", "e", "m">> :> Some(<<"C", "H", "E", "M">>))
    @@ (<<"c", "h", "e", "m", "i", "s", "t", "r", "y">> :> Some(<<"C", "H", "E", "M">>))
    @@ (<<"p", "h", "y", "s">> :> Some(<<"P", "H", "Y", "S", "I", "C", "S">>))
    @@ (<<"p", "h", "y", "s", "i", "c", "s">> :> Some(<<"P", "H", "Y", "S", "I", "C", "S">>))
    @@ (<<"p", "s", "y">> :> Null)
    @@ (<<"p", "s", "y", "c", "h">> :> Null)
    @@ (<<"p", "s", "y", "c", "h", "o", "l", "o", "g", "y">> :> Null)
    @@ (<<"a", "n", "t", "h", "r", "o">> :> Some(<<"A", "N", "T", "H", "R", "O">>))
    @@ (<<"a", "n", "t", "h", "r", "o", "p", "o", "l", "o", "g", "y">> :> Some(<<"A", "N", "T", "H", "R", "O">>))
    @@ (<<"s", "o", "c">> :> Some(<<"S", "O", "C", "I", "O", "L">>))
    @@ (<<"s", "o", "c", "i", "o", "l", "o", "g", "y">> :> Some(<<"S", "O", "C", "I", "O", "L">>))
    @@ (<<"p", "h", "i", "l">> :> Some(<<"P", "H", "I", "L">>))
    @@ (<<"p", "h", "i", "l", "o", "s", "o", "p", "h", "y">> :> Some(<<"P", "H", "I", "L">>))
    @@ (<<"n", "e", "u", "r", "o">> :> Some(<<"N", "E", "U", "R", "O">>))
    @@ (<<"n", "e", "u", "r", "o", "s", "c", "i", "e", "n", "c", "e">> :> Some(<<"N", "E", "U", "R", "O">>))
    @@ (<<"d", "a", "t", "a", " ", "s", "c", "i", "e", "n", "c", "e">> :> Null)
    @@ (<<"l", "i", "n", "g">> :> Some(<<"L", "I", "N", "G">>))
    @@ (<<"l", "i", "n", "g", "u", "i", "s", "t", "i", "c", "s">> :> Some(<<"L", "I", "N", "G">>))

\* mapDepartment on a term of the department pattern: each is a key of
\* DEPARTMENT_ALIASES, so the function returns from its first branch
mapDepartment(searchTerm) ==
    LET term == trim(toLowerCase(searchTerm))
        mapped == DEPARTMENT_ALIASES[term]
    IN  IF mapped = Null
        THEN [department |-> Null, titleSearch |-> Some(term)]
        ELSE [department |-> mapped, titleSearch |-> Null]

\* the department pattern matches at position i with alternative k
deptMatchAt(text, i, k) ==
    /\ wordBoundary(text, i)
    /\ matchAt(text, i, DEPARTMENT_TERMS[k])
    /\ wordBoundary(text, i + Len(DEPARTMENT_TERMS[k]))

\* text.match of the department pattern: the first group of the leftmost
\* match, by the first alternative that matches there; Null for no match
deptMatch(text) ==
    LET at == {i \in 1..Len(text) : \E k \in 1..Len(DEPARTMENT_TERMS) : deptMatchAt(text, i, k)}
    IN  IF at = {} THEN Null
        ELSE LET i == CHOOSE p \in at : \A r \in at : p <= r
                 k == CHOOSE a \in 1..Len(DEPARTMENT_TERMS) :
                        /\ deptMatchAt(text, i, a)
                        /\ \A b \in 1..(a - 1) : ~deptMatchAt(text, i, b)
             IN  Some(DEPARTMENT_TERMS[k])

\* /\b(?:([A-Z]{2,})\s*)?(\d+[A-Z]?)\b/i at position i: the two groups of
\* the match, deptCode Null when its group took no part; Null for no match.
\* A run of two letters or more is the first group and the digits follow
\* its white space; with no letter at i the digits stand at i
courseCodeAt(text, i) ==
    LET lettersEnd == runEnd(text, i, Letters)
        hasDept == lettersEnd - i >= 2
        digitsStart == IF hasDept THEN runEnd(text, lettersEnd, SpaceChars) ELSE i
        digitsEnd == runEnd(text, digitsStart, DigitChars)
        withLetter == /\ digitsEnd <= Len(text)
                      /\ text[digitsEnd] \in Letters
                      /\ wordBoundary(text, digitsEnd + 1)
        numEnd == IF withLetter THEN digitsEnd + 1 ELSE digitsEnd
    IN  IF /\ wordBoundary(text, i)
           /\ hasDept \/ lettersEnd = i
           /\ digitsEnd > digitsStart
           /\ withLetter \/ wordBoundary(text, digitsEnd)
        THEN Some([deptCode |-> IF hasDept THEN Some(SubSeq(text, i, lettersEnd - 1)) ELSE Null,
                   courseNum |-> SubSeq(text, digitsStart, numEnd - 1)])
        ELSE Null

\* text.match of the course code pattern: the leftmost match
courseCodeMatch(text) ==
    LET at == {i \in 1..Len(text) : courseCodeAt(text, i) # Null}
    IN  IF at = {} THEN Null
        ELSE courseCodeAt(text, CHOOSE p \in at : \A r \in at : p <= r)

RECURSIVE DigitsValue(_)
\* Number of a string of digits
DigitsValue(digits) ==
    IF digits = <<>> THEN 0
    ELSE 10 * DigitsValue(SubSeq(digits, 1, Len(digits) - 1))
         + (CHOOSE n \in 0..9 :
                <<"0", "1", "2", "3", "4", "5", "6", "7", "8", "9">>[n + 1] = digits[Len(digits)])

\* from position i: the prefix, white space (at least minSpaces characters),
\* digits, white space (at least minSpaces characters) and one of the
\* endings; the digits, Null for no match
hoursAt(text, i, prefix, minSpaces, endings) ==
    LET spacesStart == i + Len(prefix)
        digitsStart == runEnd(text, spacesStart, SpaceChars)
        digitsEnd == runEnd(text, digitsStart, DigitChars)
        endStart == runEnd(text, digitsEnd, SpaceChars)
    IN  IF /\ matchAt(text, i, prefix)
           /\ digitsStart - spacesStart >= minSpaces
           /\ digitsEnd > digitsStart
           /\ endStart - digitsEnd >= minSpaces
           /\ \E e \in endings : matchAt(text, endStart, e)
        THEN Some(SubSeq(text, digitsStart, digitsEnd - 1))
        ELSE Null

\* /<=\s*(\d+)\s*hrs?\/wk|<=\s*(\d+)\s*hours?|under\s+(\d+)\s+hours?/ at
\* position i: the group of the first alternative that matches
hoursMatchAt(text, i) ==
    LET perWeek == hoursAt(text, i, <<"<", "=">>, 0, {<<"h", "r", "s", "/", "w", "k">>, <<"h", "r", "/", "w", "k">>})
        atMost == hoursAt(text, i, <<"<", "=">>, 0, {<<"h", "o", "u", "r">>})
        under == hoursAt(text, i, <<"u", "n", "d", "e", "r">>, 1, {<<"h", "o", "u", "r">>})
    IN  IF perWeek # Null THEN perWeek
        ELSE IF atMost # Null THEN atMost
        ELSE under

\* text.match of the hours pattern: the leftmost match
hoursMatch(text) ==
    LET at == {i \in 1..Len(text) : hoursMatchAt(text, i) # Null}
    IN  IF at = {} THEN Null
        ELSE hoursMatchAt(text, CHOOSE p \in at : \A r \in at : p <= r)

\* Array.from(new Set(times)): the first occurrence of each element
uniqueInOrder(times) ==
    LET first == {i \in 1..Len(times) : \A j \in 1..(i - 1) : times[j] # times[i]}
    IN  [k \in 1..Cardinality(first) |->
            times[CHOOSE i \in first : Cardinality({j \in first : j <= i}) = k]]

\* the general education category the text names, Null for none
genEdCategoryOf(lowerText) ==
    IF \/ includes(lowerText, <<"a", "e", "s", "t", "h", "e", "t", "i", "c", "s">>) \/ includes(lowerText, <<"c", "u", "l", "t", "u", "r", "e">>)
       \/ (includes(lowerText, <<"a", "r", "t">>) /\ ~includes(lowerText, <<"m", "a", "r", "t">>))
    THEN Some("Aesthetics and Culture")
    ELSE IF \/ includes(lowerText, <<"e", "t", "h", "i", "c", "s">>) \/ includes(lowerText, <<"c", "i", "v", "i", "c", "s">>)
            \/ includes(lowerText, <<"m", "o", "r", "a", "l">>)
            \/ (includes(lowerText, <<"p", "o", "l", "i", "t", "i", "c", "a", "l">>) /\ ~includes(lowerText, <<"a", "p", "o", "l", "i", "t", "i", "c", "a", "l">>))
            \/ includes(lowerText, <<"j", "u", "s", "t", "i", "c", "e">>)
    THEN Some("Ethics and Civics")
    ELSE IF \/ includes(lowerText, <<"h", "i", "s", "t", "o", "r", "i", "e", "s">>) \/ includes(lowerText, <<"h", "i", "s", "t", "o", "r", "y">>)
            \/ includes(lowerText, <<"s", "o", "c", "i", "e", "t", "i", "e", "s">>)
            \/ (includes(lowerText, <<"s", "o", "c", "i", "e", "t", "y">>) /\ ~includes(lowerText, <<"s", "c", "i", "e", "n", "c", "e", " ", "a", "n", "d", " ", "t", "e", "c", "h", "n", "o", "l", "o", "g", "y">>))
            \/ includes(lowerText, <<"i", "n", "d", "i", "v", "i", "d", "u", "a", "l", "s">>)
            \/ (includes(lowerText, <<"s", "o", "c", "i", "a", "l">>) /\ ~includes(lowerText, <<"s", "c", "i", "e", "n", "c", "e">>))
    THEN Some("Histories, Societies, Individuals")
    ELSE IF \/ (includes(lowerText, <<"s", "c", "i", "e", "n", "c", "e">>)
                /\ (includes(lowerText, <<"t", "e", "c", "h", "n", "o", "l", "o", "g", "y">>) \/ includes(lowerText, <<"s", "o", "c", "i", "e", "t", "y">>)
                    \/ includes(lowerText, <<"t", "e", "c", "h">>)))
            \/ (includes(lowerText, <<"t", "e", "c", "h", "n", "o", "l", "o", "g", "y">>) /\ includes(lowerText, <<"s", "o", "c", "i", "e", "t", "y">>))
            \/ includes(lowerText, <<"s", "t", "i", "s">>)
            \/ (includes(lowerText, <<"t", "e", "c", "h">>) /\ includes(lowerText, <<"g", "e", "n", "e", "d">>))
    THEN Some("Science and Technology in Society")
    ELSE Null

\* the preferred times the text names
timesOf(text) ==
    (IF includes(text, <<"m", "o", "r", "n", "i", "n", "g">>) THEN <<<<"a", "m">>>> ELSE <<>>)
    \o (IF includes(text, <<"a", "f", "t", "e", "r", "n", "o", "o", "n">>) THEN <<<<"p", "m">>>> ELSE <<>>)
    \o (IF includes(text, <<"e", "v", "e", "n", "i", "n", "g">>) \/ includes(text, <<"n", "i", "g", "h", "t">>) THEN <<<<"p", "m">>>> ELSE <<>>)
    \o (IF \/ includes(text, <<"t", "u", "/", "t", "h">>) \/ includes(text, <<"t", "u", "t", "h">>)
           \/ includes(text, <<"t", "u", "e">>) \/ includes(text, <<"t", "h", "u">>)
        THEN <<<<"t", "u", "e">>, <<"t", "h", "u">>>> ELSE <<>>)
    \o (IF includes(text, <<"m", "o", "n">>) \/ includes(text, <<"m", "o", "n", "d", "a", "y">>) THEN <<<<"m", "o", "n">>>> ELSE <<>>)
    \o (IF includes(text, <<"w", "e", "d">>) \/ includes(text, <<"w", "e", "d", "n", "e", "s", "d", "a", "y">>) THEN <<<<"w", "e", "d">>>> ELSE <<>>)
    \o (IF includes(text, <<"f", "r", "i">>) \/ includes(text, <<"f", "r", "i", "d", "a", "y">>) THEN <<<<"f", "r", "i">>>> ELSE <<>>)

\* GemMinerWebhook.extractQuery: all it derives but the preferred times is
\* put under filters; the properties of the query it leaves undefined are
\* those of EmptyQuery
extractQuery(userMessage) ==
    LET text == toLowerCase(userMessage)
        isGenEd == \/ includes(text, <<"g", "e", "n", "e", "d">>) \/ includes(text, <<"g", "e", "n", " ", "e", "d">>)
                   \/ includes(text, <<"g", "e", "n", "e", "r", "a", "l", " ", "e", "d", "u", "c", "a", "t", "i", "o", "n">>)
        genEdCategory == IF isGenEd THEN genEdCategoryOf(text) ELSE Null
        dept == IF isGenEd THEN Null ELSE deptMatch(text)
        mapped == IF dept = Null THEN [department |-> Null, titleSearch |-> Null]
                  ELSE mapDepartment(dept[1])
        department == IF isGenEd THEN Some(GENED) ELSE mapped.department
        code == courseCodeMatch(text)
        toCompSci == code # Null /\ (code[1].deptCode = Some(<<"C", "S">>) \/ code[1].deptCode = Null)
        courseCode == IF code = Null THEN Null
                      ELSE IF toCompSci THEN Some(<<"C", "O", "M", "P", "S", "C", "I", " ">>\o code[1].courseNum)
                      ELSE Some(code[1].deptCode[1] \o <<" ">> \o code[1].courseNum)
        hrs == hoursMatch(text)
    IN  [EmptyQuery EXCEPT
            !.filters = [department |-> IF toCompSci /\ ~Truthy(department)
                                        THEN Some(<<"C", "O", "M", "P", "S", "C", "I">>) ELSE department,
                         isGenEd |-> isGenEd,
                         genEdCategory |-> genEdCategory,
                         titleSearch |-> mapped.titleSearch,
                         courseCode |-> courseCode,
                         maxHrsPerWeek |-> IF hrs = Null THEN Null
                                           ELSE Some(100 * DigitsValue(hrs[1])),
                         noFinal |-> includes(text, <<"n", "o", " ", "f", "i", "n", "a", "l">>),
                         minRating |-> Null,
                         minGemProb |-> Null],
            !.preferredTimes = uniqueInOrder(timesOf(text))]

(***************************************************************************)
(* SpecWebhook: text messages received one after the other; the query      *)
(* extractQuery derives from each is handed to findGems and answered, in a *)
(* process whose evaluation file holds an ordinary course, two general     *)
(* education courses of different categories and two courses of one        *)
(* department.                                                             *)
(***************************************************************************)
WebhookQRows == {
    QRow(<<"A", " ", "1", " ", "0", "0", "1">>, <<"A", "r", "t">>, Some(450), Some(400), Null),
    QRow(<<"G", "E", "N", "E", "D", " ", "1", "0", "3", "4">>, <<"F", "i", "l", "m">>, Some(440), Some(300), Null),
    QRow(<<"G", "E", "N", "E", "D", " ", "1", "0", "5", "9">>, <<"J", "u", "s", "t", "i", "c", "e">>, Some(430), Some(500), Null),
    QRow(<<"C", "O", "M", "P", "S", "C", "I", " ", "5", "0">>, <<"I", "n", "t", "r", "o">>, Some(420), Some(1400), Null),
    QRow(<<"C", "O", "M", "P", "S", "C", "I", " ", "6", "1">>, <<"S", "y", "s", "t", "e", "m", "s">>, Some(410), Some(1200), Null) }

WebhookCatalogRows == {
    CatalogRow(<<"1">>, <<"G", "E", "N", "E", "D">>, <<"1", "0", "3", "4">>, <<"G", "e", "n", "e", "r", "a", "l", " ", "E", "d", "u", "c", "a", "t", "i", "o", "n">>, <<"2", "0", "2", "6", " ", "S", "p", "r", "i", "n", "g">>, <<>>, <<>>, <<>>),
    CatalogRow(<<"2">>, <<"G", "E", "N", "E", "D">>, <<"1", "0", "5", "9">>, <<"G", "e", "n", "e", "r", "a", "l", " ", "E", "d", "u", "c", "a", "t", "i", "o", "n">>, <<"2", "0", "2", "6", " ", "S", "p", "r", "i", "n", "g">>, <<>>, <<>>, <<>>) }

\* texts of messages: one for each property extractQuery derives
Messages == {
    <<"e", "a", "s", "y", " ", "g", "e", "m", "s">>,
    <<"n", "o", " ", "f", "i", "n", "a", "l">>,
    <<"g", "e", "n", "e", "d", " ", "e", "t", "h", "i", "c", "s">>,
    <<"C", "S", " ", "5", "0">>,
    <<"c", "s", "5", "0", " ", "n", "o", " ", "f", "i", "n", "a", "l">>,
    <<"p", "s", "y", "c", "h", " ", "u", "n", "d", "e", "r", " ", "5", " ", "h", "o", "u", "r", "s">>,
    <<"a", "r", "t", " ", "g", "e", "n", " ", "e", "d", " ", "i", "n", " ", "t", "h", "e", " ", "e", "v", "e", "n", "i", "n", "g", " ", "o", "r", " ", "a", "t", " ", "n", "i", "g", "h", "t">>,
    <<"m", "a", "t", "h", " ", "<", "=", " ", "1", "2", " ", "h", "r", "s", "/", "w", "k", " ", "t", "u", "/", "t", "h", " ", "m", "o", "r", "n", "i", "n", "g">> }

InitWebhook ==
    /\ qreportFile \in Files(WebhookQRows, MaxWebhookQRows)
    /\ catalogFile \in Files(WebhookCatalogRows, MaxWebhookCatRows)
    /\ canvasFile \in CanvasFiles
    /\ qreportCache = Null
    /\ catalogCache = Null
    /\ pending = FALSE
    /\ query = EmptyQuery
    /\ result = <<>>
    /\ gemsDone = FALSE
    /\ textMessage = <<>>
    /\ lookId = <<>>
    /\ lookOut = <<>>
    /\ lookExists = FALSE
    /\ detailsDone = FALSE
    /\ existsDone = FALSE
    /\ firstQ = <<>>
    /\ lastQ = <<>>
    /\ firstCat = <<>>
    /\ lastCat = <<>>
    /\ sIn = <<>>
    /\ sArg = <<>>
    /\ sOut = <<>>
    /\ sCalls = 0
    /\ rankIn = <<>>
    /\ rankPrefs = [preferredTimes |-> <<>>]
    /\ rankOut = <<>>
    /\ rankDone = FALSE
    /\ csvLine = <<>>
    /\ csvFields = <<>>
    /\ csvDone = FALSE
    /\ fetchFilters = <<>>
    /\ fetched = <<>>
    /\ fetchDone = FALSE
    /\ callPc = <<>>
    /\ callQuery = <<>>
    /\ callQCourses = <<>>
    /\ callCatalog = <<>>
    /\ callSignals = <<>>
    /\ callResult = <<>>
    /\ conversationCache = <<>>
    /\ accepted = <<>>

\* a text message that asks for courses arrives and its query is
\* extracted; the request before it has been answered
ReceiveMessage(userMessage) ==
    /\ ~pending
    /\ ~gemsDone
    /\ pending' = TRUE
    /\ textMessage' = userMessage
    /\ query' = extractQuery(userMessage)
    /\ result' = <<>>
    /\ gemsDone' = FALSE
    /\ UNCHANGED <<qreportFile, catalogFile, canvasFile, qreportCache, catalogCache,
                   stripVars, rankVars, lookVars, loadVars, csvVars, fetchVars, callVars, chatVars>>

NextWebhook == (\E userMessage \in Messages : ReceiveMessage(userMessage)) \/ FindGems \/ Respond

SpecWebhook == InitWebhook /\ [][NextWebhook]_vars

(***************************************************************************)
(* Claims about the ranking engine                                         *)
(***************************************************************************)
\* the course an entry of the ranked list was built from
Underlying(c) == [f \in DOMAIN c \ {"logisticsFit", "GemScore"} |-> c[f]]

\* the bands as the documentation gives them (values in hundredths)
C6_RatingBand(r) ==
    LET rating == IF r = Null THEN 0 ELSE r[1]
    IN  CASE rating >= 450 -> 50
          [] rating >= 400 /\ rating < 450 -> 40
          [] rating >= 350 /\ rating < 400 -> 30
          [] rating >= 300 /\ rating < 350 -> 20
          [] OTHER -> 10

C6_WorkloadBand(h) ==
    CASE h <= 300 -> 40
      [] h > 300 /\ h <= 500 -> 30
      [] h > 500 /\ h <= 800 -> 20
      [] h > 800 /\ h <= 1000 -> 10
      [] OTHER -> 0

C6_CommentBonus(c) == IF c # Null /\ c[1] \in GemComments THEN 10 ELSE 0

\* C5: every GemScore rankCourses attaches is an integer from 0 to 100,
\* whatever the rating, workload and comment (null included).
C5_ScoreInRange ==
    rankDone => \A i \in 1..Len(rankOut) : rankOut[i].GemScore \in 0..100

C5_Witness ==
    /\ rankDone
    /\ \E i \in 1..Len(rankOut) :
        /\ rankOut[i].rating = Null
        /\ rankOut[i].workloadHrs = Null
        /\ rankOut[i].bestComment = Null
        /\ rankOut[i].GemScore = 20

\* C6: for a course with a non-null workload the GemScore is the rating
\* band (50/40/30/20 from 4.5/4.0/3.5/3.0 up, else 10, null as 0) plus the
\* workload band (40/30/20/10 up to 3/5/8/10 hours, else 0) plus 10 exactly
\* when the comment mentions "gem", "easy class" or "easy course".
C6_ScoreIsSumOfBands ==
    rankDone =>
        \A i \in 1..Len(rankOut) :
            rankOut[i].workloadHrs # Null =>
                rankOut[i].GemScore =
                    C6_RatingBand(rankOut[i].rating)
                    + C6_WorkloadBand(rankOut[i].workloadHrs[1])
                    + C6_CommentBonus(rankOut[i].bestComment)

C6_Witness ==
    /\ rankDone
    /\ \E i \in 1..Len(rankOut) :
        /\ rankOut[i].rating = Some(449)
        /\ rankOut[i].workloadHrs = Some(301)
        /\ rankOut[i].bestComment = Some(<<"H", "i", "d", "d", "e", "n", " ", "G", "E", "M">>)
        /\ rankOut[i].GemScore = 80

C8_StablePermutationByScore ==
    rankDone =>
        LET n == Len(rankIn)
        IN  /\ Len(rankOut) = n
            /\ \E p \in [1..n -> 1..n] :
                /\ \A i, j \in 1..n : i # j => p[i] # p[j]
                /\ \A i \in 1..n : Underlying(rankOut[i]) = rankIn[p[i]]
                /\ \A i, j \in 1..n :
                    i < j =>
                        /\ rankOut[i].GemScore >= rankOut[j].GemScore
                        /\ rankOut[i].GemScore = rankOut[j].GemScore => p[i] < p[j]
            /\ LET plain == rankCourses(rankIn, [preferredTimes |-> <<>>])
               IN  [i \in 1..n |-> Underlying(rankOut[i])]
                       = [i \in 1..Len(plain) |-> Underlying(plain[i])]

\* three courses are reordered, two different ones tie, and the preferred
\* time fits only some of them
C8_Witness ==
    /\ rankDone
    /\ Len(rankOut) >= 3
    /\ Underlying(rankOut[1]) # rankIn[1]
    /\ \E i, j \in 1..Len(rankOut) :
        /\ i < j
        /\ rankOut[i].GemScore = rankOut[j].GemScore
        /\ Underlying(rankOut[i]) # Underlying(rankOut[j])
        /\ rankOut[i].logisticsFit = 0
        /\ rankOut[j].logisticsFit = 1

(***************************************************************************)
(* Claims about the identifier normalizer                                  *)
(***************************************************************************)
\* the identifier ends with a white-space separated group of three digits
HasSuffix3(s) ==
    /\ Len(s) >= 4
    /\ IsDigit(s[Len(s)])
    /\ IsDigit(s[Len(s) - 1])
    /\ IsDigit(s[Len(s) - 2])
    /\ IsSpace(s[Len(s) - 3])

DigitVal(c) == CHOOSE n \in 0..9 : <<"0", "1", "2", "3", "4", "5", "6", "7", "8", "9">>[n + 1] = c

\* numeric value of the last three characters
Suffix3Value(s) ==
    100 * DigitVal(s[Len(s) - 2]) + 10 * DigitVal(s[Len(s) - 1]) + DigitVal(s[Len(s)])

\* the identifier without its last three characters and the white space before them
Base3(s) == trimEnd(SubSeq(s, 1, Len(s) - 3))

\* C1: on an identifier as the loaders deliver it (no leading or trailing
\* white space) that ends with a white-space separated 3-digit suffix,
\* stripSectionNumber removes the suffix when it is in 001-099 and returns
\* the identifier unchanged when it is 000 or in 100-999.
C1_StripExactly001To099 ==
    (sCalls = 1 /\ HasSuffix3(sIn) /\ trim(sIn) = sIn) =>
        IF Suffix3Value(sIn) \in 1..99
        THEN sOut = Base3(sIn)
        ELSE sOut = sIn

\* C2: stripSectionNumber is idempotent: applied to its own result it
\* returns that result unchanged.
C2_Idempotent ==
    sCalls = 2 => sOut = sArg

(***************************************************************************)
(* Claims about findGems                                                   *)
(***************************************************************************)
\* the records and entries the two source files hold
SourceRecords == IF qreportFile = Null THEN <<>> ELSE qreportCourses(qreportFile[1])
SourceEntries == IF catalogFile = Null THEN <<>> ELSE catalogCourses(catalogFile[1])

\* the query sets none of the constraints applied after the merge
NoPostMergeFilters ==
    /\ query.maxHrsPerWeek = Null
    /\ ~query.noFinal
    /\ query.department = Null
    /\ query.courseCode = Null
    /\ query.genEdCategory = Null

\* C3: whatever the query and the content of the evaluation and catalog
\* sources, no two entries of the list findGems returns have the same
\* courseId, in normal mode and in fallback mode.
C3_UniqueCourseIds ==
    gemsDone =>
        \A i, j \in 1..Len(result) :
            result[i].courseId = result[j].courseId => i = j

\* C3 witness: two evaluation records that are sections of one course went
\* through the merge, and the list returned holds the course once.
C3_Witness ==
    /\ gemsDone
    /\ query = EmptyQuery
    /\ Len(SourceRecords) = 2
    /\ SourceRecords[1].courseId # SourceRecords[2].courseId
    /\ stripSectionNumber(SourceRecords[1].courseId[1])
           = stripSectionNumber(SourceRecords[2].courseId[1])
    /\ Len(result) = 1
    /\ "hasQReportData" \in DOMAIN result[1]

\* C4: every findGems result holds exactly one entry per canonical course
\* identifier: every returned courseId is unchanged by stripSectionNumber
\* and no two returned entries normalize to the same identifier, in fallback
\* mode too.
C4_OneEntryPerCanonicalId ==
    gemsDone =>
        /\ \A i \in 1..Len(result) :
               stripSectionNumber(result[i].courseId[1]) = result[i].courseId[1]
        /\ \A i, j \in 1..Len(result) :
               stripSectionNumber(result[i].courseId[1])
                   = stripSectionNumber(result[j].courseId[1]) => i = j

\* C9: when the evaluation source yields zero records and the catalog holds
\* N entries with pairwise distinct identifiers, findGems without post-merge
\* filters returns exactly N entries, each flagged _usingDefaults, with
\* rating 4.0, workloadHrs 6 and sentiment 0.5.
C9_FallbackReturnsEveryEntry ==
    ( /\ gemsDone
      /\ SourceRecords = <<>>
      /\ \A i, j \in 1..Len(SourceEntries) :
             SourceEntries[i].courseId = SourceEntries[j].courseId => i = j
      /\ NoPostMergeFilters )
    => /\ Len(result) = Len(SourceEntries)
       /\ \A i \in 1..Len(result) :
              /\ "usingDefaults" \in DOMAIN result[i]
              /\ result[i].usingDefaults
              /\ result[i].rating = Some(400)
              /\ result[i].workloadHrs = Some(600)
              /\ result[i].sentiment = Some(50)

\* C10: when the evaluation source holds at least one record and the
\* pre-filters of the query match none of them, findGems returns an empty
\* list; entries with default ratings are returned only when the evaluation
\* source is empty or missing; no returned course has a rating below
\* filters.minRating.
C10_NoMatchReturnsNothing ==
    (gemsDone /\ SourceRecords # <<>>) =>
        /\ applyFilters(SourceRecords, query.filters) = <<>> => result = <<>>
        /\ \A i \in 1..Len(result) : "usingDefaults" \notin DOMAIN result[i]
        /\ query.filters.minRating # Null =>
               \A i \in 1..Len(result) :
                   /\ result[i].rating # Null
                   /\ result[i].rating[1] >= query.filters.minRating[1]

\* the entry carries the provenance flag
HasFlag(c, flag) == flag \in DOMAIN c /\ c[flag] = TRUE

\* C11: every entry findGems returns carries exactly one of the flags
\* _hasQReportData and _usingDefaults, all entries of a result carry the same
\* one; with _hasQReportData the rating and workloadHrs are those of one
\* single evaluation record, with _usingDefaults they are the defaults 4.0
\* and 6.
C11_SingleProvenance ==
    gemsDone =>
        /\ \A i \in 1..Len(result) :
               HasFlag(result[i], "hasQReportData") # HasFlag(result[i], "usingDefaults")
        /\ \A i, j \in 1..Len(result) :
               HasFlag(result[i], "usingDefaults") = HasFlag(result[j], "usingDefaults")
        /\ \A i \in 1..Len(result) :
               HasFlag(result[i], "hasQReportData") =>
                   \E k \in 1..Len(SourceRecords) :
                       /\ result[i].rating = SourceRecords[k].rating
                       /\ result[i].workloadHrs = SourceRecords[k].workloadHrs
        /\ \A i \in 1..Len(result) :
               HasFlag(result[i], "usingDefaults") =>
                   /\ result[i].rating = Some(400)
                   /\ result[i].workloadHrs = Some(600)

\* C11 witness: a result of two courses built from evaluation records of
\* different ratings and workloads while the catalog holds entries
C11_Witness ==
    /\ gemsDone
    /\ SourceEntries # <<>>
    /\ Len(result) = 2
    /\ HasFlag(result[1], "hasQReportData")
    /\ result[1].rating # result[2].rating
    /\ result[1].workloadHrs # result[2].workloadHrs

\* the evaluation records findGems merges and the merged courses its
\* optional constraints are applied to, for the files and the query of the
\* state
PassedRecords == applyFilters(SourceRecords, query.filters)
MergedDeduped == mergedCourses(PassedRecords, SourceEntries, canvasFile)

\* C12 (helpers): the two conditions of the claim on a merged course
C12_MatchesDepartment(c) ==
    c.department # Null
    /\ \E i \in 0..(Len(c.department[1]) - Len(query.department[1])) :
           toLowerCase(SubSeq(c.department[1], i + 1, i + Len(query.department[1])))
               = toLowerCase(query.department[1])
C12_WithinHours(c) == c.workloadHrs = Null \/ c.workloadHrs[1] <= query.maxHrsPerWeek[1]

\* C12: for a query with maxHrsPerWeek = H and department = D, D other than
\* "gened", the returned courses are exactly the deduplicated merged courses
\* whose department contains D (letter case ignored) and whose workloadHrs
\* is null or at most H.
C12_FiltersConjunctive ==
    ( /\ gemsDone
      /\ query.maxHrsPerWeek # Null
      /\ query.department # Null
      /\ ~query.noFinal /\ query.courseCode = Null /\ query.genEdCategory = Null )
    => {Underlying(result[i]) : i \in 1..Len(result)}
           = {MergedDeduped[k] : k \in {n \in 1..Len(MergedDeduped) :
                   /\ C12_MatchesDepartment(MergedDeduped[n])
                   /\ C12_WithinHours(MergedDeduped[n])}}

\* C12 witness: under such a query, of two merged courses the one of the
\* department and within the hours is returned, the other is not
C12_Witness ==
    /\ gemsDone
    /\ query.maxHrsPerWeek # Null
    /\ query.department # Null
    /\ Len(MergedDeduped) = 2
    /\ Len(result) = 1
    /\ C12_WithinHours(result[1])
    /\ C12_MatchesDepartment(result[1])

\* the query asks for general education courses
C13_GenEdQuery == query.department # Null /\ toLowerCase(query.department[1]) = toLowerCase(GENED)

\* C13 (as claimed): when findGems is called with department "gened" in any
\* letter case, every returned course has a catalog subject equal to "GENED";
\* a course of another subject or without catalog entry is never returned.
C13_GenEdSubjectExact ==
    (gemsDone /\ C13_GenEdQuery) =>
        \A i \in 1..Len(result) : result[i].subject = Some(GENED)

\* C13 (amended): when findGems is called with department "gened" in any
\* letter case, every returned course has a catalog subject equal to "GENED"
\* when letter case is ignored; a course of another subject or without
\* catalog entry is never returned, whatever its title or department holds.
C13_GenEdSubjectIgnoringCase ==
    (gemsDone /\ C13_GenEdQuery) =>
        \A i \in 1..Len(result) :
            /\ result[i].subject # Null
            /\ toUpperCase(result[i].subject[1]) = GENED

\* C13 witness: a general education course is returned while a merged course
\* of another subject, whose department text holds "gened", is not
C13_Witness ==
    /\ gemsDone
    /\ C13_GenEdQuery
    /\ Len(result) = 1
    /\ \E k \in 1..Len(MergedDeduped) :
           /\ MergedDeduped[k].subject # result[1].subject
           /\ includes(toLowerCase(strOr(MergedDeduped[k].department, <<>>)), toLowerCase(GENED))

\* C14: with noFinal = true, and no other constraint to pass, findGems
\* returns exactly the merged courses whose finalExam is false, "no" or
\* null: no course with a known final exam, every course of unknown status.
C14_NoFinalExact ==
    ( /\ gemsDone
      /\ query.noFinal
      /\ query.maxHrsPerWeek = Null /\ query.department = Null
      /\ query.courseCode = Null /\ query.genEdCategory = Null )
    => {Underlying(result[i]) : i \in 1..Len(result)}
           = {MergedDeduped[k] : k \in {n \in 1..Len(MergedDeduped) :
                   MergedDeduped[n].finalExam \in {Some("false"), Some("no"), Null}}}

\* C14 witness: of two merged courses the one with a final exam is left out
\* and the one whose signal says false is returned
C14_Witness ==
    /\ gemsDone
    /\ query.noFinal
    /\ Len(MergedDeduped) = 2
    /\ \E k \in 1..2 : MergedDeduped[k].finalExam = Some("true")
    /\ Len(result) = 1
    /\ result[1].finalExam = Some("false")

\* no catalog entry has the identifier of the record, literal or normalized
C15_Unmatched(rec) ==
    \A k \in 1..Len(SourceEntries) :
        {SourceEntries[k].courseId[1], stripSectionNumber(SourceEntries[k].courseId[1])}
            \cap {rec.courseId[1], stripSectionNumber(rec.courseId[1])} = {}

\* C15: in normal mode with no post-merge filters the courseIds findGems
\* returns are exactly the normalized identifiers of the evaluation records
\* that passed the pre-filters, and a course none of whose records matches a
\* catalog entry is returned with subject, term and requirements null.
C15_NoRecordDropped ==
    (gemsDone /\ PassedRecords # <<>> /\ NoPostMergeFilters) =>
        /\ {result[i].courseId[1] : i \in 1..Len(result)}
               = {stripSectionNumber(PassedRecords[k].courseId[1]) : k \in 1..Len(PassedRecords)}
        /\ \A i \in 1..Len(result) :
               (\A k \in 1..Len(PassedRecords) :
                    stripSectionNumber(PassedRecords[k].courseId[1]) = result[i].courseId[1]
                        => C15_Unmatched(PassedRecords[k]))
               => /\ result[i].subject = Null
                  /\ result[i].term = Null
                  /\ result[i].requirements = Null

\* C15 witness: of two returned courses one comes from a record without
\* catalog entry, the other carries the subject of its catalog entry
C15_Witness ==
    /\ gemsDone
    /\ NoPostMergeFilters
    /\ Len(PassedRecords) = 2
    /\ Len(result) = 2
    /\ \E i, j \in 1..2 :
           /\ result[i].subject = Null
           /\ \E k \in 1..2 : /\ C15_Unmatched(PassedRecords[k])
                              /\ stripSectionNumber(PassedRecords[k].courseId[1]) = result[i].courseId[1]
           /\ result[j].subject # Null

\* the first evaluation record, in source order after the pre-filters, whose
\* identifier normalizes to courseId
FirstRecord(courseId) ==
    PassedRecords[CHOOSE k \in 1..Len(PassedRecords) :
        /\ stripSectionNumber(PassedRecords[k].courseId[1]) = courseId[1]
        /\ \A j \in 1..(k - 1) :
               stripSectionNumber(PassedRecords[j].courseId[1]) # courseId[1]]

C18_PraisedIn(comment) ==
    /\ comment # Null
    /\ \/ includes(toLowerCase(comment[1]), <<"g", "e", "m">>)
       \/ includes(toLowerCase(comment[1]), <<"e", "a", "s", "y", " ", "c", "l", "a", "s", "s">>)
       \/ includes(toLowerCase(comment[1]), <<"e", "a", "s", "y", " ", "c", "o", "u", "r", "s", "e">>)

\* C18: a course findGems returns in normal mode whose evaluation record has
\* a bestComment containing "gem", "easy class" or "easy course" has a
\* GemScore 10 above the score of the same course with an empty comment.
C18_CommentBonusEndToEnd ==
    (gemsDone /\ PassedRecords # <<>>) =>
        \A i \in 1..Len(result) :
            C18_PraisedIn(FirstRecord(result[i].courseId).bestComment) =>
                result[i].GemScore
                    = computeGemScore([rating |-> result[i].rating,
                                       workloadHrs |-> result[i].workloadHrs,
                                       bestComment |-> Some(<<>>)]) + 10

\* the catalog entry the normal branch joins with evaluation record rec: Null
\* or Some(entry)
C19_JoinedEntry(rec) ==
    LET catalogUnique == dedupCatalog(SourceEntries)
        literal == catalogByIdGet(catalogUnique, rec.courseId[1])
    IN  IF literal # Null THEN literal
        ELSE catalogByIdGet(catalogUnique, stripSectionNumber(rec.courseId[1]))

\* C19: a course returned in normal mode whose evaluation record was joined
\* with a catalog entry carries the entry's weekdays, startTime, endTime,
\* instructors and requirements, and as genEd the entry's distribution,
\* wherever the entry's value is not empty, whatever the evaluation record
\* holds for the field.
C19_CatalogSideWins ==
    (gemsDone /\ PassedRecords # <<>>) =>
        \A i \in 1..Len(result) :
            LET entry == C19_JoinedEntry(FirstRecord(result[i].courseId))
            IN  entry # Null =>
                    /\ Truthy(entry[1].weekdays) => result[i].weekdays = entry[1].weekdays
                    /\ Truthy(entry[1].startTime) => result[i].startTime = entry[1].startTime
                    /\ Truthy(entry[1].endTime) => result[i].endTime = entry[1].endTime
                    /\ Truthy(entry[1].instructors) => result[i].instructors = entry[1].instructors
                    /\ Truthy(entry[1].requirements) => result[i].requirements = entry[1].requirements
                    /\ Truthy(entry[1].distribution) => result[i].genEd = entry[1].distribution

\* the part of C19 that leaves the distribution out
C19_ExceptDistribution ==
    (gemsDone /\ PassedRecords # <<>>) =>
        \A i \in 1..Len(result) :
            LET entry == C19_JoinedEntry(FirstRecord(result[i].courseId))
            IN  entry # Null =>
                    /\ Truthy(entry[1].weekdays) => result[i].weekdays = entry[1].weekdays
                    /\ Truthy(entry[1].startTime) => result[i].startTime = entry[1].startTime
                    /\ Truthy(entry[1].endTime) => result[i].endTime = entry[1].endTime
                    /\ Truthy(entry[1].instructors) => result[i].instructors = entry[1].instructors
                    /\ Truthy(entry[1].requirements) => result[i].requirements = entry[1].requirements

\* C20 as stated: in normal mode each returned course has the rating,
\* workloadHrs, sentiment and qreportLink of the first evaluation record, in
\* source order after the pre-filters, whose identifier normalizes to its
\* courseId.
C20_EvaluationSideFirstSeen ==
    (gemsDone /\ PassedRecords # <<>>) =>
        \A i \in 1..Len(result) :
            LET rec == FirstRecord(result[i].courseId)
            IN  /\ result[i].rating = rec.rating
                /\ result[i].workloadHrs = rec.workloadHrs
                /\ result[i].sentiment = rec.sentiment
                /\ result[i].qreportLink = rec.qreportLink

\* C20 amended: in normal mode each returned course has the rating,
\* workloadHrs and sentiment of the first evaluation record whose identifier
\* normalizes to its courseId, and that record's qreportLink when it is not
\* empty, null when it is empty.
C20_FirstSeenWithEmptyLinkNull ==
    (gemsDone /\ PassedRecords # <<>>) =>
        \A i \in 1..Len(result) :
            LET rec == FirstRecord(result[i].courseId)
            IN  /\ result[i].rating = rec.rating
                /\ result[i].workloadHrs = rec.workloadHrs
                /\ result[i].sentiment = rec.sentiment
                /\ result[i].qreportLink
                       = IF rec.qreportLink = Some(<<>>) THEN Null ELSE rec.qreportLink

\* C20 witness: two sections of one course with different ratings and links,
\* joined with a catalog entry, are returned as one course with the rating
\* and the link of the first
C20_Witness ==
    /\ gemsDone
    /\ Len(PassedRecords) = 2
    /\ PassedRecords[1].rating # PassedRecords[2].rating
    /\ PassedRecords[1].qreportLink # PassedRecords[2].qreportLink
    /\ C19_JoinedEntry(PassedRecords[1]) # Null
    /\ Len(result) = 1
    /\ stripSectionNumber(PassedRecords[2].courseId[1]) = result[1].courseId[1]
    /\ result[1].rating = PassedRecords[1].rating
    /\ result[1].qreportLink = PassedRecords[1].qreportLink

(***************************************************************************)
(* Claims about the catalog lookup                                         *)
(***************************************************************************)
\* identifier of the i-th catalog entry, letter case removed
C16_Id(i) == toUpperCase(SourceEntries[i].courseId[1])

\* the entry of least index among those of the set, Null for undefined
C16_First(S) ==
    IF S = {} THEN Null
    ELSE Some(SourceEntries[CHOOSE i \in S : \A j \in S : i <= j])

\* key with its leading department code swapped, Null when it has neither
C16_Swapped(key) ==
    IF startsWith(key, <<"C", "S", " ">>) THEN Some(<<"C", "O", "M", "P", "S", "C", "I", " ">> \o SubSeq(key, 4, Len(key)))
    ELSE IF startsWith(key, <<"C", "O", "M", "P", "S", "C", "I", " ">>) THEN Some(<<"C", "S", " ">> \o SubSeq(key, 9, Len(key)))
    ELSE Null

\* the resolution order of the claim for the upper-cased identifier key
C16_Resolved(key) ==
    LET equal == {i \in 1..Len(SourceEntries) : C16_Id(i) = key}
        prefixed == {i \in 1..Len(SourceEntries) : startsWith(C16_Id(i), key \o <<" ">>)}
        swapped == C16_Swapped(key)
        aliased == IF swapped = Null THEN {}
                   ELSE {i \in 1..Len(SourceEntries) :
                            \/ C16_Id(i) = swapped[1]
                            \/ startsWith(C16_Id(i), swapped[1] \o <<" ">>)}
    IN  IF equal # {} THEN C16_First(equal)
        ELSE IF prefixed # {} THEN C16_First(prefixed)
        ELSE C16_First(aliased)

\* C16 (as claimed): getCourseById(x) returns the entry whose identifier
\* equals x when letter case is ignored, if there is one; otherwise the first
\* entry whose identifier starts with x and a space; otherwise the entry found
\* with the leading "CS " and "COMPSCI " swapped; otherwise undefined; and
\* courseExists(x) is true exactly when getCourseDetails(x) is not undefined.
C16_ResolutionOrder ==
    /\ detailsDone =>
           lookOut = IF lookId = Null THEN Null ELSE C16_Resolved(toUpperCase(lookId[1]))
    /\ (detailsDone /\ existsDone) => (lookExists <=> lookOut # Null)

\* C16 (amended): getCourseById(x) is undefined for an x that is missing or
\* empty; otherwise x is stripped of the white space around it and resolved
\* in the order above; courseExists(x) is true exactly when
\* getCourseDetails(x) is not undefined.
C16_ResolutionOrderOfTrimmedId ==
    /\ detailsDone =>
           lookOut = IF lookId = Null \/ lookId[1] = <<>> THEN Null
                     ELSE C16_Resolved(trim(toUpperCase(lookId[1])))
    /\ (detailsDone /\ existsDone) => (lookExists <=> lookOut # Null)

\* C16 witness: both functions have returned, and getCourseDetails returned
\* the entry whose identifier equals x although an entry that x only
\* prefixes comes first in the catalog
C16_Witness ==
    /\ detailsDone
    /\ existsDone
    /\ lookExists
    /\ Len(SourceEntries) = 2
    /\ lookId # Null
    /\ C16_Id(2) = toUpperCase(lookId[1])
    /\ startsWith(C16_Id(1), toUpperCase(lookId[1]) \o <<" ">>)
    /\ lookOut = Some(SourceEntries[2])

(***************************************************************************)
(* Claims about the loaders                                                *)
(***************************************************************************)
\* C17: after the first loadData call of a loader in a process, every later
\* loadData call of that loader returns the collection the first call
\* returned, whatever happened to the file in between, also when the first
\* call found the file absent and returned an empty collection.
C17_LoadOnce ==
    /\ firstQ # Null => lastQ = firstQ
    /\ firstCat # Null => lastCat = firstCat

\* C24: every entry the catalog loader has produced has a non-empty courseId
\* and a title without the front-matter markers, and every record the
\* evaluation loader has produced has a non-empty courseId.
C24_LoadedIdsNonEmpty ==
    /\ catalogCache # Null =>
           \A i \in 1..Len(catalogCache[1]) :
               /\ Truthy(catalogCache[1][i].courseId)
               /\ ~includes(catalogCache[1][i].title[1], HARVARD_UNIVERSITY)
               /\ ~includes(catalogCache[1][i].title[1], TABLE_OF_CONTENTS)
    /\ qreportCache # Null =>
           \A i \in 1..Len(qreportCache[1]) : Truthy(qreportCache[1][i].courseId)

\* every quote character of body is one of a pair of adjacent quote characters
RECURSIVE C25_QuotesDoubled(_)
C25_QuotesDoubled(body) ==
    IF body = <<>> THEN TRUE
    ELSE IF body[1] # "\"" THEN C25_QuotesDoubled(Tail(body))
    ELSE Len(body) >= 2 /\ body[2] = "\"" /\ C25_QuotesDoubled(Tail(Tail(body)))

\* the value of a quoted field: each doubled quote character of body read as
\* one literal quote character
RECURSIVE C25_Unescaped(_)
C25_Unescaped(body) ==
    IF body = <<>> THEN <<>>
    ELSE IF body[1] = "\"" THEN <<"\"">> \o C25_Unescaped(Tail(Tail(body)))
    ELSE <<body[1]>> \o C25_Unescaped(Tail(body))

\* the line is one field wrapped in quote characters
C25_OneQuotedField ==
    /\ Len(csvLine) >= 2
    /\ csvLine[1] = "\""
    /\ csvLine[Len(csvLine)] = "\""
    /\ C25_QuotesDoubled(SubSeq(csvLine, 2, Len(csvLine) - 1))

\* C25: parseCSVLine returns for a line that is one field wrapped in quote
\* characters a single cell, whatever delimiters the field contains, and the
\* cell holds one literal quote character for each doubled quote character of
\* the field (white space around the value aside).
C25_QuotingHonoured ==
    (csvDone /\ C25_OneQuotedField) =>
        csvFields = <<trim(C25_Unescaped(SubSeq(csvLine, 2, Len(csvLine) - 1)))>>

\* the part of C25 about the delimiter: a quoted field without quote
\* characters of its own is returned as one cell
C25_DelimiterInQuotes ==
    (csvDone /\ C25_OneQuotedField /\ \A i \in 2..(Len(csvLine) - 1) : csvLine[i] # "\"") =>
        csvFields = <<trim(SubSeq(csvLine, 2, Len(csvLine) - 1))>>

\* the record has a value on each threshold the filters set, and the value is
\* on the right side of the threshold or on it
C26_WithinThresholds(c, filters) ==
    /\ filters.minRating # Null => (c.rating # Null /\ c.rating[1] >= filters.minRating[1])
    /\ filters.maxHrsPerWeek # Null =>
           (c.workloadHrs # Null /\ c.workloadHrs[1] <= filters.maxHrsPerWeek[1])
    /\ filters.minGemProb # Null =>
           (c.gemProbability # Null /\ c.gemProbability[1] >= filters.minGemProb[1])

\* C26: fetchCourses with threshold filters returns, in the order of the
\* source, exactly the records that have a value on every threshold set and
\* meet it, the threshold included; the loader's cache holds the records of
\* the source unchanged; and a record without workload, which
\* filters.maxHrsPerWeek excludes, is returned by findGems under the
\* post-merge maxHrsPerWeek.
C26_ThresholdsExcludeUnknown ==
    /\ (fetchDone /\ ~Truthy(fetchFilters.department) /\ ~Truthy(fetchFilters.titleSearch)) =>
           fetched = SelectSeq(SourceRecords, LAMBDA c : C26_WithinThresholds(c, fetchFilters))
    /\ qreportCache # Null => qreportCache[1] = SourceRecords
    /\ (gemsDone /\ query.maxHrsPerWeek # Null /\ query.filters = EmptyQuery.filters) =>
           \A k \in 1..Len(SourceRecords) :
               SourceRecords[k].workloadHrs = Null =>
                   \E i \in 1..Len(result) :
                       /\ result[i].courseId[1] = stripSectionNumber(SourceRecords[k].courseId[1])
                       /\ result[i].workloadHrs = Null

\* C26 witness: fetchCourses with filters.maxHrsPerWeek 5 has returned the
\* record with workload 5 and left out the one without workload, and findGems
\* with the post-merge maxHrsPerWeek 5 has returned both
C26_Witness ==
    /\ fetchDone
    /\ fetchFilters.maxHrsPerWeek = Some(500)
    /\ Len(SourceRecords) = 2
    /\ \E k \in 1..2 : SourceRecords[k].workloadHrs = Null
    /\ Len(fetched) = 1
    /\ fetched[1].workloadHrs = Some(500)
    /\ gemsDone
    /\ query.maxHrsPerWeek = Some(500)
    /\ Len(result) = 2

(***************************************************************************)
(* Claims about the join                                                   *)
(***************************************************************************)
\* the entry of its courseId the catalog dedup is to keep: of the entries
\* with "2026" in the term if there is one, else of those with a term if there
\* is one, else of all, the first in the file
C23_Survivor(courseId) ==
    LET group == {i \in 1..Len(SourceEntries) : SourceEntries[i].courseId = courseId}
        recent == {i \in group : includes(SourceEntries[i].term[1], YEAR_2026)}
        dated == {i \in group : SourceEntries[i].term[1] # <<>>}
        best == IF recent # {} THEN recent ELSE IF dated # {} THEN dated ELSE group
    IN  SourceEntries[CHOOSE i \in best : \A j \in best : i <= j]

\* C23: when no evaluation record is loaded and the query has no constraint,
\* findGems returns for every literal courseId of the catalog exactly one
\* course, and it is the entry of that courseId with "2026" in its term if
\* there is one, else the one with a term if there is one, and among those
\* the first of the file, whatever the order of the rows.
C23_CatalogDedupPrefersRecent ==
    (gemsDone /\ SourceRecords = <<>> /\ NoPostMergeFilters) =>
        \A k \in 1..Len(SourceEntries) :
            LET courseId == SourceEntries[k].courseId
                returned == {i \in 1..Len(result) : result[i].courseId = courseId}
            IN  /\ Cardinality(returned) = 1
                /\ \A i \in returned :
                       /\ result[i].requirements = C23_Survivor(courseId).requirements
                       /\ result[i].term = Or(C23_Survivor(courseId).term, Null)

\* C23 witness: three rows of one course, without term, of 2025 and of 2026 in
\* this order, and the course is returned once with the data of the third
C23_Witness ==
    /\ gemsDone
    /\ SourceRecords = <<>>
    /\ NoPostMergeFilters
    /\ Len(SourceEntries) = 3
    /\ \A k \in 2..3 : SourceEntries[k].courseId = SourceEntries[1].courseId
    /\ SourceEntries[1].term = Some(<<>>)
    /\ SourceEntries[2].term # Some(<<>>)
    /\ ~includes(SourceEntries[2].term[1], YEAR_2026)
    /\ includes(SourceEntries[3].term[1], YEAR_2026)
    /\ Len(result) = 1
    /\ result[1].requirements = SourceEntries[3].requirements

\* the deduplicated catalog holds an entry with this literal courseId:
\* Null or Some(entry)
C21_LiteralEntry(courseId) ==
    IF \E i \in 1..Len(SourceEntries) : SourceEntries[i].courseId = courseId
    THEN Some(C23_Survivor(courseId))
    ELSE Null

\* C21: a course returned in normal mode whose evaluation record has the
\* literal courseId of an entry of the deduplicated catalog was merged with
\* that entry, whatever the order of the entries in the catalog.
C21_LiteralBeforeNormalized ==
    (gemsDone /\ PassedRecords # <<>>) =>
        \A i \in 1..Len(result) :
            LET entry == C21_LiteralEntry(FirstRecord(result[i].courseId).courseId)
            IN  entry # Null => /\ result[i].requirements = entry[1].requirements
                                /\ result[i].term = Or(entry[1].term, Null)

\* the identifier with the department spelled the other way, CS for COMPSCI
\* and COMPSCI for CS
C22_AliasSwapped(courseId) ==
    IF startsWith(courseId, <<"C", "S", " ">>) THEN <<"C", "O", "M", "P", "S", "C", "I", " ">> \o SubSeq(courseId, 4, Len(courseId))
    ELSE IF startsWith(courseId, <<"C", "O", "M", "P", "S", "C", "I", " ">>) THEN <<"C", "S", " ">> \o SubSeq(courseId, 9, Len(courseId))
    ELSE courseId

\* the catalog entries that match the record by its literal identifier, its
\* normalized identifier, or either with the department alias swapped
C22_Matching(rec) ==
    LET ids == {rec.courseId[1], stripSectionNumber(rec.courseId[1])}
        keys == ids \cup {C22_AliasSwapped(id) : id \in ids}
    IN  {k \in 1..Len(SourceEntries) :
            {SourceEntries[k].courseId[1], stripSectionNumber(SourceEntries[k].courseId[1])}
                \cap keys # {}}

\* C22: a course returned in normal mode whose evaluation record matches a
\* catalog entry by its literal identifier, its normalized identifier or its
\* identifier with the CS/COMPSCI alias swapped carries catalog data: the
\* subject, the weekdays and the meeting time of a matching entry.
C22_JoinedThroughAlias ==
    (gemsDone /\ PassedRecords # <<>>) =>
        \A i \in 1..Len(result) :
            LET matching == C22_Matching(FirstRecord(result[i].courseId))
            IN  matching # {} =>
                    \E k \in matching :
                        /\ result[i].subject = SourceEntries[k].subject
                        /\ result[i].weekdays = Or(SourceEntries[k].weekdays, Null)
                        /\ result[i].meetingTime # Null

(***************************************************************************)
(* Claims about concurrent calls                                           *)
(***************************************************************************)
\* C27: with unchanged source files and the steps of the calls interleaved in
\* any order, a call that has returned has returned what findGems returns
\* for its query when it runs alone, the records a call works on are those of
\* the whole source that pass its pre-filters, and a loader cache that is
\* set holds all the records of its source, unmodified.
C27_CallsDoNotInterfere ==
    /\ \A c \in Calls :
           /\ callPc[c] # "idle" =>
                  callQCourses[c] = applyFilters(SourceRecords, callQuery[c].filters)
           /\ callPc[c] = "done" =>
                  callResult[c] = findGems(callQuery[c],
                                           applyFilters(SourceRecords, callQuery[c].filters),
                                           SourceEntries, canvasFile)
    /\ qreportCache # Null => qreportCache[1] = SourceRecords
    /\ catalogCache # Null => catalogCache[1] = SourceEntries

\* C27 witness: a call that started on the cache another call filled has
\* returned a course while the other call still waits
C27_Witness ==
    \E c, d \in Calls :
        /\ callPc[c] = "fetched"
        /\ callPc[d] = "done"
        /\ callQuery[c] # callQuery[d]
        /\ callResult[d] # <<>>
        /\ callQCourses[d] # <<>>
        /\ callQCourses[c] # callQCourses[d]

(***************************************************************************)
(* Claims about the conversation cache                                     *)
(***************************************************************************)
\* the texts of the latest most of the n items accepted, oldest first
C28_Latest(n, most, Text(_)) ==
    [i \in 1..Min(n, most) |-> Text(n - Min(n, most) + i)]

\* C28: after any sequence of store and clear calls every chat holds at most
\* 5 images, 10 requests and 10 responses, and they are the latest items
\* accepted for the chat since its entry was last deleted, oldest first.
C28_CacheBounded ==
    \A chatId \in Chats :
        conversationCache[chatId] # Null =>
            LET entry == conversationCache[chatId][1]
            IN  /\ Len(entry.images) <= 5
                /\ Len(entry.requests) <= 10
                /\ Len(entry.responses) <= 10
                /\ [i \in 1..Len(entry.images) |-> entry.images[i].url]
                       = C28_Latest(accepted[chatId].images, 5, ImageUrl)
                /\ [i \in 1..Len(entry.requests) |-> entry.requests[i].text]
                       = C28_Latest(accepted[chatId].requests, 10, RequestText)
                /\ [i \in 1..Len(entry.responses) |-> entry.responses[i].text]
                       = C28_Latest(accepted[chatId].responses, 10, ResponseText)

\* C28 witness: a sixth image and an eleventh request were stored in a chat,
\* which holds the images 2 to 6 and the requests 2 to 11
C28_Witness ==
    \E chatId \in Chats :
        /\ conversationCache[chatId] # Null
        /\ accepted[chatId].images = 6
        /\ accepted[chatId].requests = 11
        /\ Len(conversationCache[chatId][1].images) = 5
        /\ conversationCache[chatId][1].images[1].url = ImageUrl(2)
        /\ Len(conversationCache[chatId][1].requests) = 10
        /\ conversationCache[chatId][1].requests[10].text = RequestText(11)

\* C29: getRecentRequest returns the latest request accepted for the chat
\* since its entry was last cleared or expired, a trivial message never
\* taking its place, getRecentImage the latest image, and both null when
\* there is none; what they return for a chat depends on nothing stored for
\* another chat.
C29_RecentOfChat ==
    \A chatId \in Chats :
        /\ getRecentRequest(conversationCache, chatId)
               = IF accepted[chatId].requests = 0 THEN Null
                 ELSE Some(RequestText(accepted[chatId].requests))
        /\ getRecentImage(conversationCache, chatId)
               = IF accepted[chatId].images = 0 THEN Null
                 ELSE Some(ImageUrl(accepted[chatId].images))

\* C29 witness: one chat returns its second request and its first image
\* while the other chat, whose entry exists and holds a response, returns
\* null for both
C29_Witness ==
    \E chatId, other \in Chats :
        /\ getRecentRequest(conversationCache, chatId) = Some(RequestText(2))
        /\ getRecentImage(conversationCache, chatId) = Some(ImageUrl(1))
        /\ conversationCache[other] # Null
        /\ conversationCache[other][1].responses # <<>>
        /\ getRecentRequest(conversationCache, other) = Null
        /\ getRecentImage(conversationCache, other) = Null

(***************************************************************************)
(* Claims about the webhook                                                *)
(***************************************************************************)
\* what extractQuery derives from the message of the latest request
C30_Derived == extractQuery(textMessage).filters

\* the message asks for "no final" and a returned course has a known final exam
C30_FinalExamReturned ==
    /\ C30_Derived.noFinal
    /\ \E i \in 1..Len(result) : result[i].finalExam = Some("true")

\* the message names a general education category and a returned course is
\* of another category or none, or its subject is not GENED
C30_OtherCategoryReturned ==
    /\ C30_Derived.genEdCategory # Null
    /\ \E i \in 1..Len(result) :
          \/ result[i].genEdCategory # C30_Derived.genEdCategory
          \/ toUpperCase(strOr(result[i].subject, <<>>)) # <<"G", "E", "N", "E", "D">>

\* the message names a course code and a returned course is neither the
\* course of that code nor one of its sections
C30_OtherCodeReturned ==
    /\ C30_Derived.courseCode # Null
    /\ \E i \in 1..Len(result) :
          LET code == trim(toUpperCase(C30_Derived.courseCode[1]))
              id == trim(toUpperCase(strOr(result[i].courseId, <<>>)))
          IN  id # code /\ ~startsWith(id, code \o <<" ">>)

\* C30: every constraint that extractQuery derives from the message of a
\* request is enforced on the courses the findGems call of the request
\* returns: after "no final" no returned course has a known final exam, after
\* a general education category every returned course has that category and
\* subject GENED, after a course code every returned course matches the code
C30_ConstraintsEnforced ==
    gemsDone =>
        /\ ~C30_FinalExamReturned
        /\ ~C30_OtherCategoryReturned
        /\ ~C30_OtherCodeReturned

====
